---- MODULE Spec2Model ----
(***************************************************************************)
(* Connection pool of gomail (pool.go): NewPool, createConnection,         *)
(* getConnection, releaseConnection and Close, run by a constructor,       *)
(* concurrent callers and closers.  The buffered channel p.connections is  *)
(* a FIFO sequence with capacity p.size; a select on it is one atomic      *)
(* step, as in the Go runtime.  Mail.send (mail.go) is run by the same     *)
(* callers on the pools that the first Sends of a configuration build.    *)
(***************************************************************************)
EXTENDS Integers, Sequences, FiniteSets, TLC

\* ---- bounds of the model ------------------------------------------------
NumCallers == 2
MaxRounds == 1
NumClosers == 2
MaxNegReqSize == 1
MaxReqSize == 5
MaxRcpt == 1
MaxAttachments == 1
MaxPoolSize == 1
MaxSends == 2
MaxRate == 2
MaxTime == 8
MaxBytes == 4
MaxTickers == 2

\* ---- program constants --------------------------------------------------
defaultPoolSize == 10

NoSession == 0

\* ---- derived sets -------------------------------------------------------
MaxSessions == defaultPoolSize + NumCallers * MaxRounds
Callers == 1..NumCallers
Closers == 1..NumClosers
Sessions == 1..MaxSessions
ReqSizes == (0 - MaxNegReqSize)..MaxReqSize
MaxPools == NumCallers * MaxSends
PoolIds == 1..MaxPools
NoPool == 0

VARIABLES
    poolRef,          \* "nil" | "ok": the *Pool the program holds
    reqSize,          \* NewPool's size argument while NewPool runs
    size,             \* p.size
    connections,      \* p.connections: buffered channel content, FIFO
    chanClosed,       \* p.connections has been closed
    mu,               \* p.mu: NoSession (free) or the closer that holds it
    sess,             \* each *smtp.Client: "none" | "open" | "closed" |
                      \* "indeterminate" (its last transaction failed)
    nextId,           \* next session the factory opens
    pcNew,            \* NewPool: "idle" | "building"
    newPoolErr,       \* NewPool returned (nil, err)
    abandoned,        \* sessions left in the channel of a pool NewPool dropped
    pc,               \* caller: "ready" | "holding" | "failed" (getConnection
                      \* returned an error) | "done" | "panicked"
    held,             \* caller's client variable
    rounds,           \* getConnection calls the caller has made
    pcClose,          \* closer: "idle" | "draining" | "done" | "panicked"
    idleAtClose,      \* channel content when close(p.connections) ran
    borrowedAtClose,  \* sessions held by callers when close(p.connections) ran
    closedByClose,    \* sessions Close() called client.Close() on
    panicked,         \* a goroutine panicked: the process is dead
    cfg,              \* the Mail configuration the Sends share
    mpool,            \* m.pool: NoPool (nil) or the pool it points at
    pools,            \* the Pool objects NewPool made for Sends: state
                      \* "none" | "failed" | "built" and channel content
    nextPool,         \* next Pool object a Send's NewPool makes
    lpool,            \* send(): its local pool / the receiver of its
                      \* m.pool.getConnection() and deferred release
    log,              \* send(): the stages and SMTP commands it has run
    result,           \* send(): "none" | "nil" | the error it returns
    rateLimiter,      \* m.rateLimiter: "nil" | "on"
    tickC,            \* ticks buffered in m.rateLimiter.C (capacity 1)
    async,            \* the caller's Send runs in SendAsync's goroutine
    handle,           \* SendAsync's result channel: values sent on it
    handleClosed,     \* SendAsync's result channel has been closed
    rate,             \* the PerSecond the rate limiter was enabled with
    untilTick,        \* time until the limiter's ticker fires next
    elapsed,          \* time since the first Send started
    lastLimit,        \* the argument of the last SetRateLimit that returned
    codec,            \* a streamed attachment on its way through the
                      \* base64 encoder: source, bytes read, pending bytes,
                      \* output
    templates,        \* m.TemplateEngine, m.templateCache, m.templateMutex
                      \* and the locals of the RenderTemplate calls
    tickers           \* the tickers SetRateLimit made: how many are running,
                      \* and for each waiting Send the ticker whose channel
                      \* it receives from when that is not m.rateLimiter
                      \* any more

vars == <<poolRef, reqSize, size, connections, chanClosed, mu, sess, nextId,
          pcNew, newPoolErr, abandoned, pc, held, rounds,
          pcClose, idleAtClose, borrowedAtClose, closedByClose, panicked,
          cfg, mpool, pools, nextPool, lpool, log, result, rateLimiter,
          tickC, async, handle, handleClosed, rate, untilTick, elapsed,
          lastLimit, codec, templates, tickers>>

poolVars == <<poolRef, reqSize, size, pcNew, newPoolErr, abandoned>>
closeVars == <<pcClose, idleAtClose, borrowedAtClose, closedByClose, mu>>
callerVars == <<pc, held, rounds>>
timeVars == <<rate, untilTick, elapsed>>
extraVars == <<lastLimit, codec, templates, tickers>>
sendVars == <<cfg, mpool, pools, nextPool, lpool, log, result, rateLimiter,
              tickC, async, handle, handleClosed, timeVars, extraVars>>

Range(q) == {q[i] : i \in 1..Len(q)}

Min(a, b) == IF a < b THEN a ELSE b

Borrowed == {held[c] : c \in {d \in Callers : pc[d] = "holding"}} \ {NoSession}

\* ---- helpers translated from the code -----------------------------------

\* NewPool: if size <= 0 { size = defaultPoolSize }
PoolCapacityNoClamp(s) == IF s < 0 THEN defaultPoolSize ELSE s

PoolCapacity(s) == IF s <= 0 THEN defaultPoolSize ELSE s

\* select { case p.connections <- client: ... }: the send case is ready
\* when the buffer has a free slot
CanSendAlways(q, cap) == TRUE

CanSend(q, cap) == Len(q) < cap

\* select { case client := <-p.connections: ... }: the receive case is ready
\* when the buffer holds a value, or the channel is closed (it yields nil)
CanRecv(q, closed) == Len(q) > 0 \/ closed

\* the value a ready receive yields
RecvValue(q) == IF Len(q) > 0 THEN Head(q) ELSE NoSession

RecvRest(q) == IF Len(q) > 0 THEN Tail(q) ELSE q

\* createConnection: ok = dial, greeting, TLS and auth all succeeded.
\* Returns the new client, or nil with the error.
createConnection(ok) == IF ok THEN nextId ELSE NoSession

\* client.Close()
CloseClient(s) == [sess EXCEPT ![s] = "closed"]

\* the caller goes on to its next round, or is done
NextPc(c) == IF rounds[c] < MaxRounds THEN "ready" ELSE "done"

\* ---- Mail configuration and validation (mail.go) -------------------------

\* An address is the sequence of the classes of its characters, the classes
\* being those the pattern of isEmailValid tells apart: "L" a letter, "D" a
\* digit, "." "-" "@" themselves, "_" one of _ % +, and "!" anything else.
LocalChars == {"L", "D", ".", "_", "-"}
DomainChars == {"L", "D", ".", "-"}
TldChars == {"L"}

AllIn(w, from, to, class) == \A i \in from..to : w[i] \in class

\* ^[a-zA-Z0-9._%+-]+@[a-zA-Z0-9.-]+\.[a-zA-Z]{2,}$
isEmailValid(w) ==
    \E at \in 2..Len(w) : \E dot \in (at + 2)..(Len(w) - 2) :
        /\ AllIn(w, 1, at - 1, LocalChars)
        /\ w[at] = "@"
        /\ AllIn(w, at + 1, dot - 1, DomainChars)
        /\ w[dot] = "."
        /\ AllIn(w, dot + 1, Len(w), TldChars)

FromAddr == <<"L", "@", "L", ".", "L", "L">>
ToAddr == <<"L", "D", "@", "L", "-", "L", ".", "L", "L", "L">>
ToAddr2 == <<"D", "@", "L", ".", "L", ".", "L", "L">>
CcAddr == <<"L", ".", "L", "@", "L", ".", "L", "L">>
BccAddr == <<"L", "_", "L", "@", "D", ".", "L", "L">>
BadAddr == <<"L", ".", "L">>
BadTldAddr == <<"L", "@", "L", ".", "L">>

\* The string fields validate() requires besides From and To.
StringFields == {"Name", "Host", "Port", "User", "Pass", "Subject", "Content"}

SeqsUpTo(S, n) == UNION {[1..k -> S] : k \in 0..n}

\* m.ContentType: not set, or TextPlain, TextHTML, TextMarkdown
ContentTypes == {"", "text/plain", "text/html", "text/markdown"}

\* m.tlsConfig: nil, or a *TLSConfig with its StartTLS field
NoTLS == [present |-> FALSE, StartTLS |-> FALSE]
TLSConfigs == {NoTLS} \cup {[present |-> TRUE, StartTLS |-> b] : b \in BOOLEAN}

BasicConfig(ps) ==
    [empty |-> {}, From |-> FromAddr, To |-> <<ToAddr>>, Cc |-> <<>>,
     Bcc |-> <<>>, atts |-> 0, streams |-> 0, poolSize |-> ps,
     tlsConfig |-> NoTLS, ContentType |-> ""]

\* Configurations that pass validate(): one or more recipients, with or
\* without copies and attachments of both kinds.
ValidConfigs ==
    [empty : {{}},
     From : {FromAddr},
     To : SeqsUpTo({ToAddr, ToAddr2}, MaxRcpt) \ {<<>>},
     Cc : SeqsUpTo({CcAddr}, MaxRcpt),
     Bcc : SeqsUpTo({BccAddr}, MaxRcpt),
     atts : 0..MaxAttachments,
     streams : 0..MaxAttachments,
     poolSize : {1},
     tlsConfig : {NoTLS},
     ContentType : {""}]

\* A configuration with one defect: a required string empty, no sender or
\* recipient, or one malformed address.
Defects(m) ==
    {[m EXCEPT !.empty = {f}] : f \in StringFields}
    \cup {[m EXCEPT !.From = a] : a \in {<<>>, BadTldAddr}}
    \cup {[m EXCEPT !.To = <<>>]}
    \cup {[m EXCEPT !.To[i] = BadAddr] : i \in 1..Len(m.To)}
    \cup {[m EXCEPT !.Cc[i] = BadAddr] : i \in 1..Len(m.Cc)}
    \cup {[m EXCEPT !.Bcc[i] = BadTldAddr] : i \in 1..Len(m.Bcc)}

Configs ==
    ValidConfigs
    \cup UNION {Defects(m) : m \in {v \in ValidConfigs :
                                        v.atts = 0 /\ v.streams = 0}}

ConcurrentConfigs == {BasicConfig(ps) : ps \in 1..MaxPoolSize}

\* the three TLS policies
TLSPolicyConfigs == {[BasicConfig(1) EXCEPT !.tlsConfig = t] : t \in TLSConfigs}

\* one recipient, or one of each kind
LimitedConfigs ==
    {BasicConfig(1),
     [BasicConfig(1) EXCEPT !.Cc = <<CcAddr>>, !.Bcc = <<BccAddr>>]}

\* variant: the Bcc addresses are not checked
validateSkipsBcc(m) ==
    /\ m.From # <<>>
    /\ m.empty = {}
    /\ Len(m.To) # 0
    /\ isEmailValid(m.From)
    /\ \A i \in 1..Len(m.To) : isEmailValid(m.To[i])
    /\ \A i \in 1..Len(m.Cc) : isEmailValid(m.Cc[i])

validate(m) ==
    /\ m.From # <<>>
    /\ m.empty = {}
    /\ Len(m.To) # 0
    /\ isEmailValid(m.From)
    /\ \A i \in 1..Len(m.To) : isEmailValid(m.To[i])
    /\ \A i \in 1..Len(m.Cc) : isEmailValid(m.Cc[i])
    /\ \A i \in 1..Len(m.Bcc) : isEmailValid(m.Bcc[i])

\* the check of validate() that returns false first, in the order of the code
FirstViolation(m) ==
    IF m.From = <<>> \/ m.empty # {} \/ Len(m.To) = 0 THEN "required field"
    ELSE IF ~isEmailValid(m.From) THEN "sender address"
    ELSE IF \E i \in 1..Len(m.To) : ~isEmailValid(m.To[i])
    THEN "recipient address"
    ELSE IF \E i \in 1..Len(m.Cc) : ~isEmailValid(m.Cc[i]) THEN "cc address"
    ELSE IF \E i \in 1..Len(m.Bcc) : ~isEmailValid(m.Bcc[i]) THEN "bcc address"
    ELSE "none"

\* the error send() returns when validate() returned false for m
ValidationError(m) == "missing parameter"

\* variant: the blind copies first
allRecipientsBccFirst(m) == m.Bcc \o m.Cc \o m.To

\* allRecipients := append(append(m.To, m.Cc...), m.Bcc...)
allRecipients(m) == m.To \o m.Cc \o m.Bcc

\* The state of a Mail before its first Send: no pool, nothing sent.
\* The argument of SetRateLimit: nil, or a *RateLimit with its fields; NoCall
\* when SetRateLimit has not been called.
NoCall == [kind |-> "none", Enabled |-> FALSE, PerSecond |-> 0]
NilLimit == [kind |-> "nil", Enabled |-> FALSE, PerSecond |-> 0]
Limit(enabled, perSecond) ==
    [kind |-> "limit", Enabled |-> enabled, PerSecond |-> perSecond]

Limits ==
    {NilLimit} \cup {Limit(e, r) : e \in BOOLEAN, r \in (0 - 1)..MaxRate}

\* no attachment is being encoded
NoCodec ==
    [src |-> <<>>, pos |-> 0, buf |-> <<>>, out |-> <<>>, open |-> FALSE,
     err |-> FALSE, sent |-> <<>>]

\* time.Second, in the time unit of the model
SecondUnits == 4

\* the rates whose interval is a whole number of time units
Rates == {r \in 1..MaxRate : SecondUnits % r = 0}

\* SetRateLimit: interval := time.Second / time.Duration(limit.PerSecond)
Interval(r) == SecondUnits \div r

\* a waiting Send receives from the channel of m.rateLimiter
Current == [state |-> "current", c |-> 0]

\* template names, and no compiled template
Names == {"welcome", "reset"}
NoTemplate == 0
NoName == ""

\* no engine configured, nothing cached, the mutex free
NoTemplates ==
    [engine |-> FALSE,
     cache |-> [n \in Names |-> NoTemplate],
     readers |-> {},
     writer |-> 0,
     name |-> [c \in Callers |-> NoName],
     tmpl |-> [c \in Callers |-> NoTemplate],
     parsed |-> 0]

InitSendWith(configs, limiters, rates, codecs) ==
    /\ cfg \in configs
    /\ mpool = NoPool
    /\ pools = [p \in PoolIds |-> [state |-> "none", conns |-> <<>>]]
    /\ nextPool = 1
    /\ lpool = [c \in Callers |-> NoPool]
    /\ log = [c \in Callers |-> <<>>]
    /\ result = [c \in Callers |-> "none"]
    /\ rateLimiter \in limiters
    /\ tickC = 0
    /\ async = [c \in Callers |-> FALSE]
    /\ handle = [c \in Callers |-> <<>>]
    /\ handleClosed = [c \in Callers |-> FALSE]
    /\ rate \in rates
    /\ untilTick = Interval(rate)
    /\ elapsed = 0
    /\ lastLimit = IF rateLimiter = "on" THEN Limit(TRUE, rate) ELSE NoCall
    /\ codec \in codecs
    /\ templates = NoTemplates
    /\ tickers = [running |-> IF rateLimiter = "on" THEN 1 ELSE 0,
                  bound |-> [c \in Callers |-> Current]]

InitSend(configs, limiters, rates) ==
    InitSendWith(configs, limiters, rates, {NoCodec})

\* the pool before NewPool is called, no caller started
InitPool ==
    /\ poolRef = "nil"
    /\ reqSize = 0
    /\ size = 0
    /\ connections = <<>>
    /\ chanClosed = FALSE
    /\ mu = NoSession
    /\ sess = [s \in Sessions |-> "none"]
    /\ nextId = 1
    /\ pcNew = "idle"
    /\ newPoolErr = FALSE
    /\ abandoned = {}
    /\ pc = [c \in Callers |-> "ready"]
    /\ held = [c \in Callers |-> NoSession]
    /\ rounds = [c \in Callers |-> 0]
    /\ pcClose = [k \in Closers |-> "idle"]
    /\ idleAtClose = {}
    /\ borrowedAtClose = {}
    /\ closedByClose = {}
    /\ panicked = FALSE

Init ==
    /\ InitPool
    /\ InitSend({BasicConfig(1)}, {"nil"}, {1})

\* ---- NewPool ------------------------------------------------------------

\* NewPool(config, s): clamp the size, make the channel.  The program
\* constructs its pool once.
NewPool(s) ==
    /\ ~panicked
    /\ poolRef = "nil"
    /\ pcNew = "idle"
    /\ ~newPoolErr
    /\ pcNew' = "building"
    /\ reqSize' = s
    /\ size' = PoolCapacity(s)
    /\ connections' = <<>>
    /\ chanClosed' = FALSE
    /\ UNCHANGED <<poolRef, newPoolErr, abandoned, sess, nextId, panicked>>
    /\ UNCHANGED <<closeVars, callerVars>>
    /\ UNCHANGED sendVars

\* one iteration of the loop: createConnection, then either
\* return nil, err (what the channel holds is dropped with the pool)
\* or pool.connections <- client
NewPoolCreate(ok) ==
    /\ ~panicked
    /\ pcNew = "building"
    /\ Len(connections) < size
    /\ ok => nextId <= MaxSessions
    /\ LET client == createConnection(ok) IN
       IF client = NoSession
       THEN /\ pcNew' = "idle"
            /\ newPoolErr' = TRUE
            /\ reqSize' = 0
            /\ abandoned' = abandoned \cup Range(connections)
            /\ connections' = <<>>
            /\ UNCHANGED <<sess, nextId>>
       ELSE /\ sess' = [sess EXCEPT ![client] = "open"]
            /\ nextId' = nextId + 1
            /\ connections' = Append(connections, client)
            /\ UNCHANGED <<pcNew, newPoolErr, abandoned, reqSize>>
    /\ UNCHANGED <<poolRef, size, chanClosed, panicked>>
    /\ UNCHANGED <<closeVars, callerVars>>
    /\ UNCHANGED sendVars

\* the loop is over: return pool, nil
NewPoolReturn ==
    /\ ~panicked
    /\ pcNew = "building"
    /\ Len(connections) >= size
    /\ pcNew' = "idle"
    /\ poolRef' = "ok"
    /\ reqSize' = 0
    /\ UNCHANGED <<size, newPoolErr, abandoned, connections,
                   chanClosed, sess, nextId, panicked>>
    /\ UNCHANGED <<closeVars, callerVars>>
    /\ UNCHANGED sendVars

\* ---- getConnection ------------------------------------------------------

getConnectionNoRemove(c, ok) ==
    /\ ~panicked
    /\ poolRef = "ok"
    /\ pc[c] = "ready"
    /\ rounds[c] < MaxRounds
    /\ rounds' = [rounds EXCEPT ![c] = @ + 1]
    /\ IF Len(connections) > 0
       THEN /\ held' = [held EXCEPT ![c] = Head(connections)]
            /\ pc' = [pc EXCEPT ![c] = "holding"]
            /\ UNCHANGED <<connections, sess, nextId>>
       ELSE /\ ok => nextId <= MaxSessions
            /\ held' = [held EXCEPT ![c] = createConnection(ok)]
            /\ pc' = [pc EXCEPT ![c] = IF ok THEN "holding" ELSE "failed"]
            /\ sess' = IF ok THEN [sess EXCEPT ![nextId] = "open"] ELSE sess
            /\ nextId' = IF ok THEN nextId + 1 ELSE nextId
            /\ UNCHANGED connections
    /\ UNCHANGED <<chanClosed, panicked>>
    /\ UNCHANGED <<poolVars, closeVars>>
    /\ UNCHANGED sendVars

getConnectionBlocksWhenEmpty(c, ok) ==
    /\ ~panicked
    /\ poolRef = "ok"
    /\ pc[c] = "ready"
    /\ rounds[c] < MaxRounds
    /\ Len(connections) > 0
    /\ rounds' = [rounds EXCEPT ![c] = @ + 1]
    /\ held' = [held EXCEPT ![c] = Head(connections)]
    /\ connections' = Tail(connections)
    /\ pc' = [pc EXCEPT ![c] = "holding"]
    /\ UNCHANGED <<sess, nextId, chanClosed, panicked>>
    /\ UNCHANGED <<poolVars, closeVars>>
    /\ UNCHANGED sendVars

getConnectionNilOnEmpty(c, ok) ==
    /\ ~panicked
    /\ poolRef = "ok"
    /\ pc[c] = "ready"
    /\ rounds[c] < MaxRounds
    /\ rounds' = [rounds EXCEPT ![c] = @ + 1]
    /\ held' = [held EXCEPT ![c] = RecvValue(connections)]
    /\ connections' = RecvRest(connections)
    /\ pc' = [pc EXCEPT ![c] = "holding"]
    /\ UNCHANGED <<sess, nextId, chanClosed, panicked>>
    /\ UNCHANGED <<poolVars, closeVars>>
    /\ UNCHANGED sendVars

\* getConnection(): the nil guard, then the select: a ready receive yields
\* the head of the buffer (nil from a closed, drained channel, and then
\* createConnection); the default case calls createConnection
getConnection(c, ok) ==
    /\ ~panicked
    /\ poolRef = "ok"
    /\ pc[c] = "ready"
    /\ rounds[c] < MaxRounds
    /\ rounds' = [rounds EXCEPT ![c] = @ + 1]
    /\ LET recv == CanRecv(connections, chanClosed)
           client == IF recv THEN RecvValue(connections) ELSE NoSession
       IN  IF client # NoSession
           THEN /\ held' = [held EXCEPT ![c] = client]
                /\ connections' = RecvRest(connections)
                /\ pc' = [pc EXCEPT ![c] = "holding"]
                /\ UNCHANGED <<sess, nextId>>
           ELSE /\ ok => nextId <= MaxSessions
                /\ LET made == createConnection(ok) IN
                   /\ held' = [held EXCEPT ![c] = made]
                   /\ pc' = [pc EXCEPT ![c] =
                                 IF made # NoSession THEN "holding" ELSE "failed"]
                   /\ sess' = IF made # NoSession
                              THEN [sess EXCEPT ![made] = "open"] ELSE sess
                   /\ nextId' = IF made # NoSession THEN nextId + 1 ELSE nextId
                /\ UNCHANGED connections
    /\ UNCHANGED <<chanClosed, panicked>>
    /\ UNCHANGED <<poolVars, closeVars>>
    /\ UNCHANGED sendVars

\* the caller of a failed getConnection returns the error
CallerReturn(c) ==
    /\ ~panicked
    /\ pc[c] = "failed"
    /\ pc' = [pc EXCEPT ![c] = NextPc(c)]
    /\ UNCHANGED <<held, rounds, connections, chanClosed, sess, nextId, panicked>>
    /\ UNCHANGED <<poolVars, closeVars>>
    /\ UNCHANGED sendVars

\* ---- releaseConnection --------------------------------------------------

releaseConnectionNeverReinsert(c) ==
    /\ ~panicked
    /\ pc[c] = "holding"
    /\ sess' = IF held[c] # NoSession THEN CloseClient(held[c]) ELSE sess
    /\ held' = [held EXCEPT ![c] = NoSession]
    /\ pc' = [pc EXCEPT ![c] = NextPc(c)]
    /\ UNCHANGED <<connections, rounds, nextId, chanClosed, panicked>>
    /\ UNCHANGED <<poolVars, closeVars>>
    /\ UNCHANGED sendVars

releaseConnectionLeaksOverflow(c) ==
    /\ ~panicked
    /\ pc[c] = "holding"
    /\ connections' = IF held[c] # NoSession /\ CanSend(connections, size)
                      THEN Append(connections, held[c]) ELSE connections
    /\ held' = [held EXCEPT ![c] = NoSession]
    /\ pc' = [pc EXCEPT ![c] = NextPc(c)]
    /\ UNCHANGED <<sess, rounds, nextId, chanClosed, panicked>>
    /\ UNCHANGED <<poolVars, closeVars>>
    /\ UNCHANGED sendVars

\* releaseConnection(client): a nil client returns at once; the select's
\* send case panics on a closed channel, puts the client back when the
\* buffer has a free slot, and otherwise the default case closes the client
releaseConnection(c) ==
    /\ ~panicked
    /\ pc[c] = "holding"
    /\ IF held[c] = NoSession
       THEN /\ pc' = [pc EXCEPT ![c] = NextPc(c)]
            /\ UNCHANGED <<held, connections, sess, panicked>>
       ELSE IF chanClosed
       THEN /\ pc' = [pc EXCEPT ![c] = "panicked"]
            /\ panicked' = TRUE
            /\ UNCHANGED <<held, connections, sess>>
       ELSE IF CanSend(connections, size)
       THEN /\ connections' = Append(connections, held[c])
            /\ held' = [held EXCEPT ![c] = NoSession]
            /\ pc' = [pc EXCEPT ![c] = NextPc(c)]
            /\ UNCHANGED <<sess, panicked>>
       ELSE /\ sess' = CloseClient(held[c])
            /\ held' = [held EXCEPT ![c] = NoSession]
            /\ pc' = [pc EXCEPT ![c] = NextPc(c)]
            /\ UNCHANGED <<connections, panicked>>
    /\ UNCHANGED <<rounds, nextId, chanClosed>>
    /\ UNCHANGED <<poolVars, closeVars>>
    /\ UNCHANGED sendVars

\* ---- Close --------------------------------------------------------------

\* Close(): the nil guard, p.mu.Lock(), close(p.connections); closing a
\* closed channel panics
Close(k) ==
    /\ ~panicked
    /\ poolRef = "ok"
    /\ pcClose[k] = "idle"
    /\ mu = NoSession
    /\ IF chanClosed
       THEN /\ pcClose' = [pcClose EXCEPT ![k] = "panicked"]
            /\ panicked' = TRUE
            /\ UNCHANGED <<mu, chanClosed, idleAtClose, borrowedAtClose>>
       ELSE /\ pcClose' = [pcClose EXCEPT ![k] = "draining"]
            /\ mu' = k
            /\ chanClosed' = TRUE
            /\ idleAtClose' = Range(connections)
            /\ borrowedAtClose' = Borrowed
            /\ UNCHANGED panicked
    /\ UNCHANGED <<closedByClose, connections, sess, nextId>>
    /\ UNCHANGED <<poolVars, callerVars>>
    /\ UNCHANGED sendVars

\* for client := range p.connections { if client != nil { client.Close() } }
CloseDrain(k) ==
    /\ ~panicked
    /\ pcClose[k] = "draining"
    /\ Len(connections) > 0
    /\ LET client == Head(connections) IN
       /\ connections' = Tail(connections)
       /\ sess' = IF client # NoSession THEN CloseClient(client) ELSE sess
       /\ closedByClose' = IF client # NoSession
                           THEN closedByClose \cup {client} ELSE closedByClose
    /\ UNCHANGED <<pcClose, idleAtClose, borrowedAtClose, mu, chanClosed,
                   nextId, panicked>>
    /\ UNCHANGED <<poolVars, callerVars>>
    /\ UNCHANGED sendVars

\* the range loop ends on the closed, empty channel; defer p.mu.Unlock()
CloseReturn(k) ==
    /\ ~panicked
    /\ pcClose[k] = "draining"
    /\ Len(connections) = 0
    /\ pcClose' = [pcClose EXCEPT ![k] = "done"]
    /\ mu' = NoSession
    /\ UNCHANGED <<idleAtClose, borrowedAtClose, closedByClose, connections,
                   chanClosed, sess, nextId, panicked>>
    /\ UNCHANGED <<poolVars, callerVars>>
    /\ UNCHANGED sendVars

\* the caller whose Sends follow one another
FirstCaller == 1

\* ---- Send (mail.go: send) --------------------------------------------------

Event(op, arg, ok) == [op |-> op, arg |-> arg, ok |-> ok]

Logged(c, e) == [log EXCEPT ![c] = Append(@, e)]

\* What send() does on the session between the acquisition and its return,
\* in the order of the code: MAIL FROM, one RCPT TO per recipient, DATA, the
\* header block, the content part, the attachments, the streamed
\* attachments.
\* the value of a required string field: empty, or the text that was set
FieldValue(m, f) == IF f \in m.empty THEN "" ELSE f

\* variant: the subject line is left empty
HeadersSubjectLost(m) ==
    [From |-> [name |-> FieldValue(m, "Name"), addr |-> m.From],
     To |-> m.To, Cc |-> m.Cc, Bcc |-> m.Bcc,
     Subject |-> "",
     MIMEVersion |-> "1.0", ContentType |-> "multipart/mixed"]

\* the header block send() formats
Headers(m) ==
    [From |-> [name |-> FieldValue(m, "Name"), addr |-> m.From],
     To |-> m.To, Cc |-> m.Cc, Bcc |-> m.Bcc,
     Subject |-> FieldValue(m, "Subject"),
     MIMEVersion |-> "1.0", ContentType |-> "multipart/mixed"]

\* the Content-Type header of the content part send() creates
BodyPartHeader(m) == [type |-> "text/html", charset |-> "UTF-8"]

txSteps(m) ==
    <<[op |-> "MAIL", arg |-> m.From]>>
    \o [i \in 1..Len(allRecipients(m)) |->
           [op |-> "RCPT", arg |-> allRecipients(m)[i]]]
    \o <<[op |-> "DATA", arg |-> <<>>],
         [op |-> "HEADERS", arg |-> Headers(m)],
         [op |-> "PART", arg |-> BodyPartHeader(m)],
         [op |-> "BODY", arg |-> FieldValue(m, "Content")]>>
    \o [i \in 1..m.atts |-> [op |-> "ATTACH", arg |-> <<>>]]
    \o [i \in 1..m.streams |-> [op |-> "STREAM", arg |-> <<>>]]

\* the position of DATA in txSteps
DataIndex(m) == Len(allRecipients(m)) + 2

\* variant: the data stream is not closed when send() returns
DeferredLeavesDataOpen(eodOk) == <<Event("BOUNDARY", <<>>, TRUE)>>

\* The deferred calls of send() that run when it returns after client.Data()
\* succeeded, last registered first: writer.Close() writes the closing
\* boundary, w.Close() sends the end-of-data line and reads the server's
\* reply.  Neither result is looked at.
Deferred(eodOk) ==
    <<Event("BOUNDARY", <<>>, TRUE), Event("EOD", <<>>, eodOk)>>

\* The run of send() on the session when step failAt fails (0: none does)
\* and the server answers the end-of-data line with eodOk: the events, and
\* the error send() returns.
ErrorOf(step) == step.op

\* variant: send() goes on after a failed step
TransactionGoesOn(m, failAt, eodOk) ==
    LET steps == txSteps(m)
        ran == [i \in 1..Len(steps) |->
                   Event(steps[i].op, steps[i].arg, i # failAt)]
    IN  [events |-> ran \o Deferred(eodOk),
         err |-> IF failAt = 0 THEN "nil" ELSE ErrorOf(steps[failAt])]

Transaction(m, failAt, eodOk) ==
    LET steps == txSteps(m)
        last == IF failAt = 0 THEN Len(steps) ELSE failAt
        ran == [i \in 1..last |->
                   Event(steps[i].op, steps[i].arg, i # failAt)]
        dataOpen == last > DataIndex(m)
                      \/ (last = DataIndex(m) /\ failAt = 0)
    IN  [events |-> ran \o (IF dataOpen THEN Deferred(eodOk) ELSE <<>>),
         err |-> IF failAt = 0 THEN "nil" ELSE ErrorOf(steps[failAt])]

\* the caller goes on to its next Send, or is done
AfterSend(c) == IF rounds[c] < MaxSends THEN "ready" ELSE "done"

\* send() is entered: validate(), then the nil test of m.rateLimiter
SendValidate(c) ==
    /\ ~panicked
    /\ pc[c] = "ready"
    /\ rounds[c] < MaxSends
    /\ rounds' = [rounds EXCEPT ![c] = @ + 1]
    /\ log' = [log EXCEPT ![c] = <<Event("VALIDATE", <<>>, validate(cfg))>>]
    /\ IF ~validate(cfg)
       THEN /\ result' = [result EXCEPT ![c] = ValidationError(cfg)]
            /\ pc' = [pc EXCEPT ![c] = "returning"]
       ELSE /\ result' = [result EXCEPT ![c] = "none"]
            /\ pc' = [pc EXCEPT ![c] =
                          IF rateLimiter # "nil" THEN "ratewait"
                          ELSE "checkpool"]
    /\ UNCHANGED <<cfg, mpool, pools, nextPool, lpool, rateLimiter, tickC,
                   async, handle, handleClosed>>
    /\ UNCHANGED <<held, connections, chanClosed, sess, nextId, panicked>>
    /\ UNCHANGED <<poolVars, closeVars>>
    /\ UNCHANGED <<timeVars, extraVars>>

\* the ticker of m.rateLimiter fires: the tick is buffered, or dropped when
\* one is buffered already
Tick ==
    /\ rateLimiter = "on"
    /\ tickC' = Min(tickC + 1, 1)
    /\ UNCHANGED <<cfg, mpool, pools, nextPool, lpool, log, result,
                   rateLimiter, async, handle, handleClosed>>
    /\ UNCHANGED <<connections, chanClosed, sess, nextId, panicked>>
    /\ UNCHANGED <<poolVars, closeVars, callerVars>>
    /\ UNCHANGED <<timeVars, extraVars>>

\* variant: the Send goes on when a tick is there, and leaves it there
SendRateWaitKeepsTick(c) ==
    /\ ~panicked
    /\ pc[c] = "ratewait"
    /\ tickC > 0
    /\ UNCHANGED tickC
    /\ log' = Logged(c, Event("RATEWAIT", <<>>, TRUE))
    /\ pc' = [pc EXCEPT ![c] = "checkpool"]
    /\ UNCHANGED <<cfg, mpool, pools, nextPool, lpool, result, rateLimiter,
                   async, handle, handleClosed>>
    /\ UNCHANGED <<held, rounds, connections, chanClosed, sess, nextId,
                   panicked>>
    /\ UNCHANGED <<poolVars, closeVars>>
    /\ UNCHANGED <<timeVars, extraVars>>

\* <-m.rateLimiter.C: the channel is the one of the ticker that was
\* m.rateLimiter when the Send began to wait
SendRateWait(c) ==
    /\ ~panicked
    /\ pc[c] = "ratewait"
    /\ IF tickers.bound[c].state = "current"
       THEN /\ tickC > 0
            /\ tickC' = tickC - 1
            /\ UNCHANGED tickers
       ELSE /\ tickers.bound[c].c > 0
            /\ tickers' = [tickers EXCEPT !.bound[c] = Current]
            /\ UNCHANGED tickC
    /\ log' = Logged(c, Event("RATEWAIT", <<>>, TRUE))
    /\ pc' = [pc EXCEPT ![c] = "checkpool"]
    /\ UNCHANGED <<cfg, mpool, pools, nextPool, lpool, result, rateLimiter,
                   async, handle, handleClosed>>
    /\ UNCHANGED <<held, rounds, connections, chanClosed, sess, nextId,
                   panicked>>
    /\ UNCHANGED <<poolVars, closeVars>>
    /\ UNCHANGED <<timeVars, lastLimit, codec, templates>>

\* a ticker that was replaced and not stopped fires: the tick is buffered in
\* its channel, where the Send that waits on it finds it
ReplacedTick(c) ==
    /\ tickers.bound[c].state = "running"
    /\ tickers' = [tickers EXCEPT !.bound[c].c = 1]
    /\ UNCHANGED <<cfg, mpool, pools, nextPool, lpool, log, result,
                   rateLimiter, tickC, async, handle, handleClosed>>
    /\ UNCHANGED <<connections, chanClosed, sess, nextId, panicked>>
    /\ UNCHANGED <<poolVars, closeVars, callerVars>>
    /\ UNCHANGED <<timeVars, lastLimit, codec, templates>>

\* if m.pool == nil
\* variant: a pool is constructed whether or not there is one
SendCheckPoolAlwaysNew(c) ==
    /\ ~panicked
    /\ pc[c] = "checkpool"
    /\ pc' = [pc EXCEPT ![c] = "newpool"]
    /\ UNCHANGED <<held, rounds, connections, chanClosed, sess, nextId,
                   panicked>>
    /\ UNCHANGED <<poolVars, closeVars>>
    /\ UNCHANGED sendVars

SendCheckPool(c) ==
    /\ ~panicked
    /\ pc[c] = "checkpool"
    /\ pc' = [pc EXCEPT ![c] = IF mpool = NoPool THEN "newpool" ELSE "acquire"]
    /\ UNCHANGED <<held, rounds, connections, chanClosed, sess, nextId,
                   panicked>>
    /\ UNCHANGED <<poolVars, closeVars>>
    /\ UNCHANGED sendVars

\* pool, err := NewPool(m, m.poolSize): the first nOk calls of
\* createConnection succeed.  When one fails NewPool returns nil and the
\* error, and the sessions it made stay open.
SendNewPool(c, nOk) ==
    /\ ~panicked
    /\ pc[c] = "newpool"
    /\ nextPool \in PoolIds
    /\ nOk \in 0..PoolCapacity(cfg.poolSize)
    /\ nextId + nOk - 1 <= MaxSessions
    /\ LET made == nextId..(nextId + nOk - 1)
           built == nOk = PoolCapacity(cfg.poolSize)
       IN  /\ sess' = [s \in Sessions |-> IF s \in made THEN "open" ELSE sess[s]]
           /\ nextId' = nextId + nOk
           /\ nextPool' = nextPool + 1
           /\ IF built
              THEN /\ pools' = [pools EXCEPT ![nextPool] =
                          [state |-> "built",
                           conns |-> [i \in 1..nOk |-> nextId + i - 1]]]
                   /\ lpool' = [lpool EXCEPT ![c] = nextPool]
                   /\ pc' = [pc EXCEPT ![c] = "assign"]
                   /\ UNCHANGED <<abandoned, result, log>>
              ELSE /\ pools' = [pools EXCEPT ![nextPool] =
                          [state |-> "failed", conns |-> <<>>]]
                   /\ abandoned' = abandoned \cup made
                   /\ result' = [result EXCEPT ![c] = "error creating pool"]
                   /\ log' = Logged(c, Event("NEWPOOL", <<>>, FALSE))
                   /\ pc' = [pc EXCEPT ![c] = "returning"]
                   /\ UNCHANGED lpool
    /\ UNCHANGED <<cfg, mpool, rateLimiter, tickC, async, handle,
                   handleClosed>>
    /\ UNCHANGED <<held, rounds, connections, chanClosed, panicked>>
    /\ UNCHANGED <<poolRef, reqSize, size, pcNew, newPoolErr, closeVars>>
    /\ UNCHANGED <<timeVars, extraVars>>

\* m.pool = pool
SendAssign(c) ==
    /\ ~panicked
    /\ pc[c] = "assign"
    /\ mpool' = lpool[c]
    /\ lpool' = [lpool EXCEPT ![c] = NoPool]
    /\ pc' = [pc EXCEPT ![c] = "acquire"]
    /\ UNCHANGED <<cfg, pools, nextPool, log, result, rateLimiter, tickC,
                   async, handle, handleClosed>>
    /\ UNCHANGED <<held, rounds, connections, chanClosed, sess, nextId,
                   panicked>>
    /\ UNCHANGED <<poolVars, closeVars>>
    /\ UNCHANGED <<timeVars, extraVars>>

\* client, err := m.pool.getConnection()
SendAcquire(c, ok) ==
    /\ ~panicked
    /\ pc[c] = "acquire"
    /\ LET q == pools[mpool].conns
           client == IF CanRecv(q, FALSE) THEN RecvValue(q) ELSE NoSession
       IN  IF client # NoSession
           THEN /\ held' = [held EXCEPT ![c] = client]
                /\ pools' = [pools EXCEPT ![mpool].conns = RecvRest(q)]
                /\ log' = Logged(c, Event("ACQUIRE", <<>>, TRUE))
                /\ pc' = [pc EXCEPT ![c] = "defer"]
                /\ UNCHANGED <<sess, nextId, result>>
           ELSE /\ ok => nextId <= MaxSessions
                /\ LET made == createConnection(ok) IN
                   /\ held' = [held EXCEPT ![c] = made]
                   /\ log' = Logged(c, Event("ACQUIRE", <<>>, made # NoSession))
                   /\ pc' = [pc EXCEPT ![c] =
                                 IF made # NoSession THEN "defer"
                                 ELSE "returning"]
                   /\ result' = IF made # NoSession THEN result
                                ELSE [result EXCEPT ![c] =
                                          "error getting connection"]
                   /\ sess' = IF made # NoSession
                              THEN [sess EXCEPT ![made] = "open"] ELSE sess
                   /\ nextId' = IF made # NoSession THEN nextId + 1 ELSE nextId
                /\ UNCHANGED pools
    /\ UNCHANGED <<cfg, mpool, nextPool, lpool, rateLimiter, tickC, async,
                   handle, handleClosed>>
    /\ UNCHANGED <<rounds, connections, chanClosed, panicked>>
    /\ UNCHANGED <<poolVars, closeVars>>
    /\ UNCHANGED <<timeVars, extraVars>>

\* defer m.pool.releaseConnection(client): the receiver m.pool and the
\* argument are evaluated now
SendDefer(c) ==
    /\ ~panicked
    /\ pc[c] = "defer"
    /\ lpool' = [lpool EXCEPT ![c] = mpool]
    /\ pc' = [pc EXCEPT ![c] = "transact"]
    /\ UNCHANGED <<cfg, mpool, pools, nextPool, log, result, rateLimiter,
                   tickC, async, handle, handleClosed>>
    /\ UNCHANGED <<held, rounds, connections, chanClosed, sess, nextId,
                   panicked>>
    /\ UNCHANGED <<poolVars, closeVars>>
    /\ UNCHANGED <<timeVars, extraVars>>

\* client.Mail ... return, and the deferred writer.Close() and w.Close()
\* The session after the transaction: send() returns the error of the failed
\* step at once, so the server is left where the transaction stopped.
AfterTransaction(err) == IF err = "nil" THEN "open" ELSE "indeterminate"

SendTransact(c, failAt, eodOk) ==
    /\ ~panicked
    /\ pc[c] = "transact"
    /\ failAt \in 0..Len(txSteps(cfg))
    /\ LET t == Transaction(cfg, failAt, eodOk) IN
       /\ log' = [log EXCEPT ![c] = @ \o t.events]
       /\ result' = [result EXCEPT ![c] = t.err]
       /\ sess' = [sess EXCEPT ![held[c]] = AfterTransaction(t.err)]
    /\ pc' = [pc EXCEPT ![c] = "release"]
    /\ UNCHANGED <<cfg, mpool, pools, nextPool, lpool, rateLimiter, tickC,
                   async, handle, handleClosed>>
    /\ UNCHANGED <<held, rounds, connections, chanClosed, nextId, panicked>>
    /\ UNCHANGED <<poolVars, closeVars>>
    /\ UNCHANGED <<timeVars, extraVars>>

\* variant: send() returns without releasing the session
SendReleaseSkipped(c) ==
    /\ ~panicked
    /\ pc[c] = "release"
    /\ lpool' = [lpool EXCEPT ![c] = NoPool]
    /\ pc' = [pc EXCEPT ![c] = "returning"]
    /\ UNCHANGED <<cfg, mpool, pools, nextPool, log, result, rateLimiter,
                   tickC, async, handle, handleClosed>>
    /\ UNCHANGED <<held, rounds, connections, chanClosed, sess, nextId,
                   panicked>>
    /\ UNCHANGED <<poolVars, closeVars>>
    /\ UNCHANGED <<timeVars, extraVars>>

\* variant: the session of a failed transaction is closed, not pooled
SendReleaseClosesFailed(c) ==
    /\ ~panicked
    /\ pc[c] = "release"
    /\ LET p == lpool[c] IN
       IF result[c] = "nil" /\ CanSend(pools[p].conns, PoolCapacity(cfg.poolSize))
       THEN /\ pools' = [pools EXCEPT ![p].conns = Append(@, held[c])]
            /\ UNCHANGED sess
       ELSE /\ sess' = CloseClient(held[c])
            /\ UNCHANGED pools
    /\ held' = [held EXCEPT ![c] = NoSession]
    /\ lpool' = [lpool EXCEPT ![c] = NoPool]
    /\ log' = Logged(c, Event("RELEASE", <<>>, TRUE))
    /\ pc' = [pc EXCEPT ![c] = "returning"]
    /\ UNCHANGED <<cfg, mpool, nextPool, result, rateLimiter, tickC, async,
                   handle, handleClosed>>
    /\ UNCHANGED <<rounds, connections, chanClosed, nextId, panicked>>
    /\ UNCHANGED <<poolVars, closeVars>>
    /\ UNCHANGED <<timeVars, extraVars>>

\* the deferred releaseConnection(client) runs on the pool the defer bound;
\* the send to the channel of a pool that was closed panics
SendRelease(c) ==
    /\ ~panicked
    /\ pc[c] = "release"
    /\ LET p == lpool[c] IN
       IF pools[p].state = "closed"
       THEN /\ panicked' = TRUE
            /\ pc' = [pc EXCEPT ![c] = "panicked"]
            /\ UNCHANGED <<pools, sess, held, lpool, log>>
       ELSE /\ IF CanSend(pools[p].conns, PoolCapacity(cfg.poolSize))
               THEN /\ pools' = [pools EXCEPT ![p].conns = Append(@, held[c])]
                    /\ UNCHANGED sess
               ELSE /\ sess' = CloseClient(held[c])
                    /\ UNCHANGED pools
            /\ held' = [held EXCEPT ![c] = NoSession]
            /\ lpool' = [lpool EXCEPT ![c] = NoPool]
            /\ log' = Logged(c, Event("RELEASE", <<>>, TRUE))
            /\ pc' = [pc EXCEPT ![c] = "returning"]
            /\ UNCHANGED panicked
    /\ UNCHANGED <<cfg, mpool, nextPool, result, rateLimiter, tickC, async,
                   handle, handleClosed>>
    /\ UNCHANGED <<rounds, connections, chanClosed, nextId>>
    /\ UNCHANGED <<poolVars, closeVars>>
    /\ UNCHANGED <<timeVars, extraVars>>

\* m.pool.Close(), called by c between its own calls: close(p.connections),
\* then every session still in the channel is closed.  On a pool that is
\* closed already, close(p.connections) panics.
PoolClose(c) ==
    /\ ~panicked
    /\ pc[c] = "ready"
    /\ ~async[c]
    /\ mpool # NoPool
    /\ IF pools[mpool].state = "closed"
       THEN /\ panicked' = TRUE
            /\ pc' = [pc EXCEPT ![c] = "panicked"]
            /\ UNCHANGED <<pools, sess>>
       ELSE /\ pools' = [pools EXCEPT ![mpool] =
                             [state |-> "closed", conns |-> <<>>]]
            /\ sess' = [s \in Sessions |->
                           IF \E i \in DOMAIN pools[mpool].conns :
                                  pools[mpool].conns[i] = s
                           THEN "closed" ELSE sess[s]]
            /\ UNCHANGED <<pc, panicked>>
    /\ UNCHANGED <<cfg, mpool, nextPool, lpool, log, result, rateLimiter,
                   tickC, async, handle, handleClosed>>
    /\ UNCHANGED <<held, rounds, connections, chanClosed, nextId>>
    /\ UNCHANGED <<poolVars, closeVars>>
    /\ UNCHANGED <<timeVars, extraVars>>

\* make(chan error, 1)
HandleCapacity == 1

\* variant: the goroutine reports success whatever Send returned
SendReturnDropsError(c) ==
    /\ ~panicked
    /\ pc[c] = "returning"
    /\ async[c] => CanSend(handle[c], HandleCapacity)
    /\ handle' = IF async[c] THEN [handle EXCEPT ![c] = Append(@, "nil")]
                 ELSE handle
    /\ pc' = [pc EXCEPT ![c] = IF async[c] THEN "asyncclose" ELSE AfterSend(c)]
    /\ log' = [log EXCEPT ![c] = <<>>]
    /\ result' = [result EXCEPT ![c] = "none"]
    /\ UNCHANGED <<cfg, mpool, pools, nextPool, lpool, rateLimiter, tickC,
                   async, handleClosed>>
    /\ UNCHANGED <<held, rounds, connections, chanClosed, sess, nextId,
                   panicked>>
    /\ UNCHANGED <<poolVars, closeVars>>
    /\ UNCHANGED <<timeVars, extraVars>>

\* variant: the result channel has no buffer, and no reader is waiting
SendReturnUnbuffered(c) ==
    /\ ~panicked
    /\ pc[c] = "returning"
    /\ async[c] => CanSend(handle[c], 0)
    /\ handle' = IF async[c] THEN [handle EXCEPT ![c] = Append(@, result[c])]
                 ELSE handle
    /\ pc' = [pc EXCEPT ![c] = IF async[c] THEN "asyncclose" ELSE AfterSend(c)]
    /\ log' = [log EXCEPT ![c] = <<>>]
    /\ result' = [result EXCEPT ![c] = "none"]
    /\ UNCHANGED <<cfg, mpool, pools, nextPool, lpool, rateLimiter, tickC,
                   async, handleClosed>>
    /\ UNCHANGED <<held, rounds, connections, chanClosed, sess, nextId,
                   panicked>>
    /\ UNCHANGED <<poolVars, closeVars>>
    /\ UNCHANGED <<timeVars, extraVars>>

\* send() returns.  In SendAsync's goroutine the value goes to the result
\* channel: result <- m.Send()
SendReturn(c) ==
    /\ ~panicked
    /\ pc[c] = "returning"
    /\ async[c] => CanSend(handle[c], HandleCapacity)
    /\ handle' = IF async[c] THEN [handle EXCEPT ![c] = Append(@, result[c])]
                 ELSE handle
    /\ pc' = [pc EXCEPT ![c] = IF async[c] THEN "asyncclose" ELSE AfterSend(c)]
    /\ log' = [log EXCEPT ![c] = <<>>]
    /\ result' = [result EXCEPT ![c] = "none"]
    /\ UNCHANGED <<cfg, mpool, pools, nextPool, lpool, rateLimiter, tickC,
                   async, handleClosed>>
    /\ UNCHANGED <<held, rounds, connections, chanClosed, sess, nextId,
                   panicked>>
    /\ UNCHANGED <<poolVars, closeVars>>
    /\ UNCHANGED <<timeVars, extraVars>>

\* ---- the rate limiter's ticker in time ------------------------------------

\* one unit of time passes; the clock of the Sends runs from the moment the
\* first Send started
PassTime ==
    /\ rateLimiter = "on"
    /\ untilTick > 0
    /\ elapsed < MaxTime
    /\ untilTick' = untilTick - 1
    /\ elapsed' = IF rounds[FirstCaller] > 0 THEN elapsed + 1 ELSE elapsed
    /\ UNCHANGED <<cfg, mpool, pools, nextPool, lpool, log, result,
                   rateLimiter, tickC, async, handle, handleClosed, rate>>
    /\ UNCHANGED <<connections, chanClosed, sess, nextId, panicked>>
    /\ UNCHANGED <<poolVars, closeVars, callerVars>>
    /\ UNCHANGED extraVars

\* the ticker fires when its interval has passed: the tick is buffered in
\* its channel of capacity 1, or dropped when one is buffered already
TimedTick ==
    /\ rateLimiter = "on"
    /\ untilTick = 0
    /\ tickC' = Min(tickC + 1, 1)
    /\ untilTick' = Interval(rate)
    /\ UNCHANGED <<cfg, mpool, pools, nextPool, lpool, log, result,
                   rateLimiter, async, handle, handleClosed, rate, elapsed>>
    /\ UNCHANGED <<connections, chanClosed, sess, nextId, panicked>>
    /\ UNCHANGED <<poolVars, closeVars, callerVars>>
    /\ UNCHANGED extraVars

\* ---- createConnection (pool.go), stage by stage ----------------------------

\* The stages of createConnection for configuration m, in the order of the
\* code: tls.DialWithDialer (dial and handshake) or dialer.Dial, then
\* smtp.NewClient (the greeting), client.StartTLS when StartTLS is set, and
\* client.Auth.
StagesAuthBeforeTLS(m) ==
    IF m.tlsConfig.present /\ ~m.tlsConfig.StartTLS
    THEN <<"dial", "handshake", "greeting", "auth">>
    ELSE IF m.tlsConfig.present /\ m.tlsConfig.StartTLS
    THEN <<"dial", "greeting", "auth", "starttls">>
    ELSE <<"dial", "greeting", "auth">>

Stages(m) ==
    IF m.tlsConfig.present /\ ~m.tlsConfig.StartTLS
    THEN <<"dial", "handshake", "greeting", "auth">>
    ELSE IF m.tlsConfig.present /\ m.tlsConfig.StartTLS
    THEN <<"dial", "greeting", "starttls", "auth">>
    ELSE <<"dial", "greeting", "auth">>

\* The errors the library calls of a stage can return: a refused or timed
\* out dial, a peer that closes the connection (EOF), a negative reply.
Causes(stage) ==
    CASE stage = "dial" ->
           {"dial tcp: connection refused", "dial tcp: i/o timeout"}
      [] stage = "handshake" -> {"EOF", "tls: handshake failure"}
      [] stage = "greeting" -> {"EOF", "554 no service"}
      [] stage = "starttls" -> {"EOF", "454 TLS not available"}
      [] stage = "auth" -> {"EOF", "535 authentication failed"}
      [] OTHER -> {""}

\* The transport is closed when the stage fails: by tls.DialWithDialer after
\* a failed handshake, by conn.Close() after a failed greeting, by
\* client.Close() after a failed STARTTLS or Auth; a failed dial opened
\* nothing.
ClosedOnFailureButAuth(stage) == stage \notin {"dial", "auth"}

ClosedOnFailure(stage) == stage # "dial"

\* the error createConnection returns when the stage fails with cause
CreateError(stage, cause) ==
    IF stage = "starttls" THEN "STARTTLS failed: " \o cause ELSE cause

\* One run of createConnection: failStage fails with cause, or none does.
createConnectionRun(m, failStage, cause) ==
    LET stages == Stages(m)
        last == IF failStage = "none" THEN Len(stages)
                ELSE CHOOSE i \in DOMAIN stages : stages[i] = failStage
        ran == [i \in 1..last |->
                   Event(stages[i], <<>>, stages[i] # failStage)]
    IN  [events |-> ran \o (IF failStage # "none" /\ ClosedOnFailure(failStage)
                            THEN <<Event("close", <<>>, TRUE)>> ELSE <<>>),
         err |-> IF failStage = "none" THEN "nil"
                 ELSE CreateError(failStage, cause)]

\* the transport of this run was opened and not closed
TransportOpen(events) ==
    /\ \E i \in DOMAIN events : events[i].op = "dial" /\ events[i].ok
    /\ \A i \in DOMAIN events : events[i].op # "close"

\* c calls createConnection (through NewPool or getConnection)
CreateSession(c, failStage, cause) ==
    /\ ~panicked
    /\ pc[c] = "ready"
    /\ rounds[c] < MaxSends
    /\ nextId <= MaxSessions
    /\ failStage = "none" \/ \E i \in DOMAIN Stages(cfg) : Stages(cfg)[i] = failStage
    /\ cause \in Causes(failStage)
    /\ rounds' = [rounds EXCEPT ![c] = @ + 1]
    /\ LET run == createConnectionRun(cfg, failStage, cause)
           dialed == failStage # "dial"
       IN  /\ log' = [log EXCEPT ![c] = run.events]
           /\ result' = [result EXCEPT ![c] = run.err]
           /\ held' = [held EXCEPT ![c] =
                           IF run.err = "nil" THEN nextId ELSE NoSession]
           /\ sess' = IF ~dialed THEN sess
                      ELSE IF TransportOpen(run.events)
                      THEN [sess EXCEPT ![nextId] = "open"]
                      ELSE CloseClient(nextId)
           /\ nextId' = IF dialed THEN nextId + 1 ELSE nextId
    /\ pc' = [pc EXCEPT ![c] = "returning"]
    /\ UNCHANGED <<cfg, mpool, pools, nextPool, lpool, rateLimiter, tickC,
                   async, handle, handleClosed>>
    /\ UNCHANGED <<connections, chanClosed, panicked>>
    /\ UNCHANGED <<poolVars, closeVars>>
    /\ UNCHANGED <<timeVars, extraVars>>

\* the caller has the client or the error; a client is closed when its pool
\* is closed
CreateReturn(c) ==
    /\ ~panicked
    /\ pc[c] = "returning"
    /\ sess' = IF held[c] # NoSession THEN CloseClient(held[c]) ELSE sess
    /\ held' = [held EXCEPT ![c] = NoSession]
    /\ log' = [log EXCEPT ![c] = <<>>]
    /\ result' = [result EXCEPT ![c] = "none"]
    /\ pc' = [pc EXCEPT ![c] = AfterSend(c)]
    /\ UNCHANGED <<cfg, mpool, pools, nextPool, lpool, rateLimiter, tickC,
                   async, handle, handleClosed>>
    /\ UNCHANGED <<rounds, connections, chanClosed, nextId, panicked>>
    /\ UNCHANGED <<poolVars, closeVars>>
    /\ UNCHANGED <<timeVars, extraVars>>

\* ---- streaming attachments (mail.go): base64.NewEncoder, io.Copy, Close -----

\* base64.StdEncoding: the 64 characters, and the padding character
Alphabet ==
    <<"A", "B", "C", "D", "E", "F", "G", "H",
      "I", "J", "K", "L", "M", "N", "O", "P",
      "Q", "R", "S", "T", "U", "V", "W", "X",
      "Y", "Z", "a", "b", "c", "d", "e", "f",
      "g", "h", "i", "j", "k", "l", "m", "n",
      "o", "p", "q", "r", "s", "t", "u", "v",
      "w", "x", "y", "z", "0", "1", "2", "3",
      "4", "5", "6", "7", "8", "9", "+", "/">>

Pad == "="

IndexOf(ch) == (CHOOSE i \in DOMAIN Alphabet : Alphabet[i] = ch) - 1

\* three bytes as four characters
EncodeGroup(b) ==
    LET val == b[1] * 65536 + b[2] * 256 + b[3]
    IN  <<Alphabet[(val \div 262144) + 1], Alphabet[((val \div 4096) % 64) + 1],
          Alphabet[((val \div 64) % 64) + 1], Alphabet[(val % 64) + 1]>>

\* the last one or two bytes, padded to four characters
EncodeTail(b) ==
    LET val == b[1] * 65536 + (IF Len(b) = 2 THEN b[2] * 256 ELSE 0)
    IN  <<Alphabet[(val \div 262144) + 1], Alphabet[((val \div 4096) % 64) + 1]>>
        \o (IF Len(b) = 2 THEN <<Alphabet[((val \div 64) % 64) + 1], Pad>>
            ELSE <<Pad, Pad>>)

RECURSIVE EncodeFull(_)
EncodeFull(b) ==
    IF Len(b) < 3 THEN <<>>
    ELSE EncodeGroup(SubSeq(b, 1, 3)) \o EncodeFull(SubSeq(b, 4, Len(b)))

\* encoder.Write(p): whole groups of three bytes are encoded and written,
\* up to two bytes stay in the encoder
encoderWrite(e, p) ==
    LET all == e.buf \o p
        n == Len(all) - (Len(all) % 3)
    IN  [e EXCEPT !.out = @ \o EncodeFull(SubSeq(all, 1, n)),
                  !.buf = SubSeq(all, n + 1, Len(all))]

\* variant: Close drops the bytes the encoder still holds
encoderCloseNoFlush(e) == [e EXCEPT !.buf = <<>>]

\* encoder.Close(): the bytes the encoder still holds are written, padded
encoderClose(e) ==
    [e EXCEPT !.out = @ \o (IF e.buf = <<>> THEN <<>> ELSE EncodeTail(e.buf)),
              !.buf = <<>>]

\* base64.StdEncoding decoding of s; <<-1>> stands for its error
RECURSIVE DecodeString(_)
DecodeString(s) ==
    IF s = <<>> THEN <<>>
    ELSE IF Len(s) < 4 \/ s[1] = Pad \/ s[2] = Pad THEN <<0 - 1>>
    ELSE LET i1 == IndexOf(s[1])
             i2 == IndexOf(s[2])
             b1 == i1 * 4 + (i2 \div 16)
         IN  IF s[3] = Pad
             THEN IF s[4] = Pad /\ Len(s) = 4 THEN <<b1>> ELSE <<0 - 1>>
             ELSE LET i3 == IndexOf(s[3])
                      b2 == (i2 % 16) * 16 + (i3 \div 4)
                  IN  IF s[4] = Pad
                      THEN IF Len(s) = 4 THEN <<b1, b2>> ELSE <<0 - 1>>
                      ELSE <<b1, b2, (i3 % 4) * 64 + IndexOf(s[4])>>
                           \o DecodeString(SubSeq(s, 5, Len(s)))

\* the sources of a streaming attachment: byte sequences of every length up
\* to MaxBytes
SampleBytes == {0, 77, 255}

Sources == SeqsUpTo(SampleBytes, MaxBytes)

NewEncoder(src) ==
    [src |-> src, pos |-> 0, buf |-> <<>>, out |-> <<>>, open |-> TRUE,
     err |-> FALSE, sent |-> <<>>]

\* io.Copy: the Reader gives the next n bytes, which are written to the
\* encoder
StreamCopy(n) ==
    /\ codec.open
    /\ n \in 1..(Len(codec.src) - codec.pos)
    /\ codec' = [encoderWrite(codec,
                     SubSeq(codec.src, codec.pos + 1, codec.pos + n))
                    EXCEPT !.pos = @ + n]
    /\ UNCHANGED <<poolVars, closeVars, callerVars, connections, chanClosed,
                   sess, nextId, panicked>>
    /\ UNCHANGED <<cfg, mpool, pools, nextPool, lpool, log, result,
                   rateLimiter, tickC, async, handle, handleClosed, timeVars,
                   lastLimit, templates, tickers>>

\* io.Copy returns the Reader's error: send() returns it, the encoder is
\* not closed
StreamCopyFail ==
    /\ codec.open
    /\ codec.pos < Len(codec.src)
    /\ codec' = [codec EXCEPT !.open = FALSE, !.err = TRUE]
    /\ UNCHANGED <<poolVars, closeVars, callerVars, connections, chanClosed,
                   sess, nextId, panicked>>
    /\ UNCHANGED <<cfg, mpool, pools, nextPool, lpool, log, result,
                   rateLimiter, tickC, async, handle, handleClosed, timeVars,
                   lastLimit, templates, tickers>>

\* the Reader is at its end: io.Copy returns nil, then encoder.Close(); the
\* part is complete and goes out with the message
StreamClose ==
    /\ codec.open
    /\ codec.pos = Len(codec.src)
    /\ codec' = [encoderClose(codec) EXCEPT
                     !.open = FALSE,
                     !.sent = Append(@, encoderClose(codec).out)]
    /\ UNCHANGED <<poolVars, closeVars, callerVars, connections, chanClosed,
                   sess, nextId, panicked>>
    /\ UNCHANGED <<cfg, mpool, pools, nextPool, lpool, log, result,
                   rateLimiter, tickC, async, handle, handleClosed, timeVars,
                   lastLimit, templates, tickers>>

\* The next Send of the same configuration comes to the attachment: a new
\* part and a new encoder, on the Reader that m.streamAttachments still
\* holds, which is where the Send before left it.
StreamAgain ==
    /\ ~codec.open
    /\ ~codec.err
    /\ Len(codec.sent) \in 1..(MaxSends - 1)
    /\ codec' = [codec EXCEPT !.open = TRUE, !.out = <<>>, !.buf = <<>>]
    /\ UNCHANGED <<poolVars, closeVars, callerVars, connections, chanClosed,
                   sess, nextId, panicked>>
    /\ UNCHANGED <<cfg, mpool, pools, nextPool, lpool, log, result,
                   rateLimiter, tickC, async, handle, handleClosed, timeVars,
                   lastLimit, templates, tickers>>

\* ---- RenderTemplate (mail.go) -----------------------------------------------

\* unchanged by the steps of RenderTemplate
notTemplateVars ==
    <<poolVars, closeVars, held, connections, chanClosed, sess, nextId,
      panicked, mpool, pools, nextPool, lpool, log, rateLimiter, tickC, async,
      handle, handleClosed, timeVars, lastLimit, codec, tickers>>

\* m.TemplateEngine = engine
SetTemplateEngine(c, engine) ==
    /\ ~panicked
    /\ pc[c] = "ready"
    /\ ~async[c]
    /\ templates' = [templates EXCEPT !.engine = engine]
    /\ UNCHANGED <<notTemplateVars, pc, rounds, cfg, result>>

\* RenderTemplate(name, data) is entered: the nil test of m.TemplateEngine
RenderTemplate(c, name) ==
    /\ ~panicked
    /\ pc[c] = "ready"
    /\ ~async[c]
    /\ rounds[c] < MaxRounds
    /\ rounds' = [rounds EXCEPT ![c] = @ + 1]
    /\ IF ~templates.engine
       THEN /\ result' = [result EXCEPT ![c] = "template engine not configured"]
            /\ pc' = [pc EXCEPT ![c] = "tplreturn"]
            /\ UNCHANGED templates
       ELSE /\ templates' = [templates EXCEPT !.name[c] = name]
            /\ pc' = [pc EXCEPT ![c] = "tplrlock"]
            /\ UNCHANGED result
    /\ UNCHANGED <<notTemplateVars, cfg>>

\* m.templateMutex.RLock()
TemplateRLock(c) ==
    /\ pc[c] = "tplrlock"
    /\ templates.writer = 0
    /\ templates' = [templates EXCEPT !.readers = @ \cup {c}]
    /\ pc' = [pc EXCEPT ![c] = "tplread"]
    /\ UNCHANGED <<notTemplateVars, rounds, cfg, result>>

\* tmpl, exists := m.templateCache[name]
TemplateRead(c) ==
    /\ pc[c] = "tplread"
    /\ templates' = [templates EXCEPT
                         !.tmpl[c] = templates.cache[templates.name[c]]]
    /\ pc' = [pc EXCEPT ![c] = "tplrunlock"]
    /\ UNCHANGED <<notTemplateVars, rounds, cfg, result>>

\* m.templateMutex.RUnlock(), then if !exists
TemplateRUnlock(c) ==
    /\ pc[c] = "tplrunlock"
    /\ templates' = [templates EXCEPT !.readers = @ \ {c}]
    /\ pc' = [pc EXCEPT ![c] = IF templates.tmpl[c] = NoTemplate
                                THEN "tplparse" ELSE "tplexec"]
    /\ UNCHANGED <<notTemplateVars, rounds, cfg, result>>

\* template.New(name).Funcs(...).ParseFiles(filePath): a new compiled
\* template, or an error that RenderTemplate returns
TemplateParse(c, ok) ==
    /\ pc[c] = "tplparse"
    /\ IF ok
       THEN /\ templates' = [templates EXCEPT !.parsed = @ + 1,
                                              !.tmpl[c] = templates.parsed + 1]
            /\ pc' = [pc EXCEPT ![c] = "tpllock"]
            /\ UNCHANGED result
       ELSE /\ result' = [result EXCEPT ![c] = "failed to parse template"]
            /\ pc' = [pc EXCEPT ![c] = "tplreturn"]
            /\ UNCHANGED templates
    /\ UNCHANGED <<notTemplateVars, rounds, cfg>>

\* variant: the exclusive lock is taken while readers hold the shared lock
TemplateLockIgnoresReaders(c) ==
    /\ pc[c] = "tpllock"
    /\ templates.writer = 0
    /\ templates' = [templates EXCEPT !.writer = c]
    /\ pc' = [pc EXCEPT ![c] = "tplstore"]
    /\ UNCHANGED <<notTemplateVars, rounds, cfg, result>>

\* m.templateMutex.Lock()
TemplateLock(c) ==
    /\ pc[c] = "tpllock"
    /\ templates.writer = 0
    /\ templates.readers = {}
    /\ templates' = [templates EXCEPT !.writer = c]
    /\ pc' = [pc EXCEPT ![c] = "tplstore"]
    /\ UNCHANGED <<notTemplateVars, rounds, cfg, result>>

\* m.templateCache[name] = tmpl, the map made first when it is nil
TemplateStore(c) ==
    /\ pc[c] = "tplstore"
    /\ templates' = [templates EXCEPT
                         !.cache[templates.name[c]] = templates.tmpl[c]]
    /\ pc' = [pc EXCEPT ![c] = "tplunlock"]
    /\ UNCHANGED <<notTemplateVars, rounds, cfg, result>>

\* m.templateMutex.Unlock()
TemplateUnlock(c) ==
    /\ pc[c] = "tplunlock"
    /\ templates' = [templates EXCEPT !.writer = 0]
    /\ pc' = [pc EXCEPT ![c] = "tplexec"]
    /\ UNCHANGED <<notTemplateVars, rounds, cfg, result>>

\* tmpl.Execute(&buf, data) and m.Content = buf.String(): out is the
\* rendered text, empty or not, or "error" for an Execute that failed
TemplateExecute(c, out) ==
    /\ pc[c] = "tplexec"
    /\ out \in {"error", "", "Content"}
    /\ IF out = "error"
       THEN /\ result' = [result EXCEPT ![c] = "failed to execute template"]
            /\ UNCHANGED cfg
       ELSE /\ result' = [result EXCEPT ![c] = "nil"]
            /\ cfg' = [cfg EXCEPT !.empty =
                           IF out = "" THEN @ \cup {"Content"}
                           ELSE @ \ {"Content"}]
    /\ pc' = [pc EXCEPT ![c] = "tplreturn"]
    /\ UNCHANGED <<notTemplateVars, rounds, templates>>

\* RenderTemplate returns
TemplateReturn(c) ==
    /\ pc[c] = "tplreturn"
    /\ templates' = [templates EXCEPT !.name[c] = NoName,
                                      !.tmpl[c] = NoTemplate]
    /\ result' = [result EXCEPT ![c] = "none"]
    /\ pc' = [pc EXCEPT ![c] = NextPc(c)]
    /\ UNCHANGED <<notTemplateVars, rounds, cfg>>

\* ---- SetContentType (mail.go) -----------------------------------------------

\* m.ContentType = contentType, between the caller's Sends
SetContentType(c, contentType) ==
    /\ ~panicked
    /\ pc[c] = "ready"
    /\ ~async[c]
    /\ cfg' = [cfg EXCEPT !.ContentType = contentType]
    /\ UNCHANGED <<mpool, pools, nextPool, lpool, log, result, rateLimiter,
                   tickC, async, handle, handleClosed>>
    /\ UNCHANGED <<callerVars, connections, chanClosed, sess, nextId, panicked>>
    /\ UNCHANGED <<poolVars, closeVars>>
    /\ UNCHANGED <<timeVars, extraVars>>

\* ---- SetRateLimit (mail.go) -------------------------------------------------

\* Go's integer division, which truncates; a zero divisor panics and is
\* handled by the caller of this operator
GoDiv(a, b) == IF b > 0 THEN a \div b ELSE 0 - (a \div (0 - b))

\* time.Second / time.Duration(limit.PerSecond) panics when PerSecond is 0;
\* time.NewTicker panics when the interval is not positive
SetRateLimitPanics(limit) ==
    /\ limit.kind = "limit"
    /\ limit.Enabled
    /\ \/ limit.PerSecond = 0
       \/ GoDiv(SecondUnits, limit.PerSecond) <= 0

\* The tickers after SetRateLimit assigned a new ticker (enable) or stopped
\* the one it found: a new ticker runs, the one it replaces runs on, a
\* stopped one fires no more; the Sends waiting on the old ticker's channel
\* keep that channel with what it holds.
Rebound(enable) ==
    [running |-> IF enable THEN tickers.running + 1
                 ELSE IF rateLimiter = "on" THEN tickers.running - 1
                 ELSE tickers.running,
     bound |-> [d \in Callers |->
                   IF pc[d] = "ratewait" /\ tickers.bound[d].state = "current"
                      /\ rateLimiter = "on"
                   THEN [state |-> IF enable THEN "running" ELSE "stopped",
                         c |-> tickC]
                   ELSE tickers.bound[d]]]

\* variant: a disabling call leaves the limiter as it is
SetRateLimitIgnoresDisable(c, limit) ==
    /\ ~panicked
    /\ pc[c] = "ready"
    /\ ~async[c]
    /\ limit \in Limits
    /\ IF SetRateLimitPanics(limit)
       THEN /\ panicked' = TRUE
            /\ pc' = [pc EXCEPT ![c] = "panicked"]
            /\ UNCHANGED <<rateLimiter, rate, tickC, untilTick, lastLimit,
                           tickers>>
       ELSE /\ IF limit.kind = "limit" /\ limit.Enabled
               THEN /\ tickers.running < MaxTickers
                    /\ rateLimiter' = "on"
                    /\ rate' = limit.PerSecond
                    /\ tickC' = 0
                    /\ untilTick' = GoDiv(SecondUnits, limit.PerSecond)
                    /\ tickers' = Rebound(TRUE)
               ELSE UNCHANGED <<rateLimiter, rate, tickC, untilTick, tickers>>
            /\ lastLimit' = limit
            /\ UNCHANGED <<pc, panicked>>
    /\ UNCHANGED <<cfg, mpool, pools, nextPool, lpool, log, result, async,
                   handle, handleClosed, elapsed, codec, templates>>
    /\ UNCHANGED <<held, rounds, connections, chanClosed, sess, nextId>>
    /\ UNCHANGED <<poolVars, closeVars>>

\* SetRateLimit(limit), called by c between its Sends.  Enabling starts a new
\* ticker, whose channel is empty; disabling stops the ticker and clears
\* m.rateLimiter.
SetRateLimit(c, limit) ==
    /\ ~panicked
    /\ pc[c] = "ready"
    /\ ~async[c]
    /\ limit \in Limits
    /\ IF SetRateLimitPanics(limit)
       THEN /\ panicked' = TRUE
            /\ pc' = [pc EXCEPT ![c] = "panicked"]
            /\ UNCHANGED <<rateLimiter, rate, tickC, untilTick, lastLimit,
                           tickers>>
       ELSE /\ IF limit.kind = "limit" /\ limit.Enabled
               THEN /\ tickers.running < MaxTickers
                    /\ rateLimiter' = "on"
                    /\ rate' = limit.PerSecond
                    /\ tickC' = 0
                    /\ untilTick' = GoDiv(SecondUnits, limit.PerSecond)
                    /\ tickers' = Rebound(TRUE)
               ELSE /\ rateLimiter' = "nil"
                    /\ tickC' = 0
                    /\ tickers' = Rebound(FALSE)
                    /\ UNCHANGED <<rate, untilTick>>
            /\ lastLimit' = limit
            /\ UNCHANGED <<pc, panicked>>
    /\ UNCHANGED <<cfg, mpool, pools, nextPool, lpool, log, result, async,
                   handle, handleClosed, elapsed, codec, templates>>
    /\ UNCHANGED <<held, rounds, connections, chanClosed, sess, nextId>>
    /\ UNCHANGED <<poolVars, closeVars>>

\* ---- SendAsync (mail.go) ---------------------------------------------------

\* result := make(chan error, 1); go func() { ... }(); return result
SendAsync(c) ==
    /\ ~panicked
    /\ pc[c] = "ready"
    /\ rounds[c] < MaxSends
    /\ ~async[c]
    /\ async' = [async EXCEPT ![c] = TRUE]
    /\ handle' = [handle EXCEPT ![c] = <<>>]
    /\ handleClosed' = [handleClosed EXCEPT ![c] = FALSE]
    /\ UNCHANGED <<cfg, mpool, pools, nextPool, lpool, log, result,
                   rateLimiter, tickC>>
    /\ UNCHANGED <<connections, chanClosed, sess, nextId, panicked>>
    /\ UNCHANGED <<poolVars, closeVars, callerVars>>
    /\ UNCHANGED <<timeVars, extraVars>>

\* close(result)
AsyncClose(c) ==
    /\ ~panicked
    /\ pc[c] = "asyncclose"
    /\ handleClosed' = [handleClosed EXCEPT ![c] = TRUE]
    /\ pc' = [pc EXCEPT ![c] = "asyncdone"]
    /\ UNCHANGED <<cfg, mpool, pools, nextPool, lpool, log, result,
                   rateLimiter, tickC, async, handle>>
    /\ UNCHANGED <<held, rounds, connections, chanClosed, sess, nextId,
                   panicked>>
    /\ UNCHANGED <<poolVars, closeVars>>
    /\ UNCHANGED <<timeVars, extraVars>>

\* the caller of SendAsync receives from the handle: the buffered value, or
\* nil once the channel is closed and empty; after the goroutine has ended
\* the caller lets go of the handle
AsyncReceive(c) ==
    /\ ~panicked
    /\ async[c]
    /\ CanRecv(handle[c], handleClosed[c])
    /\ handle' = [handle EXCEPT ![c] = RecvRest(@)]
    /\ IF pc[c] = "asyncdone" /\ handle[c] = <<>>
       THEN /\ async' = [async EXCEPT ![c] = FALSE]
            /\ handleClosed' = [handleClosed EXCEPT ![c] = FALSE]
            /\ pc' = [pc EXCEPT ![c] = AfterSend(c)]
       ELSE UNCHANGED <<async, handleClosed, pc>>
    /\ UNCHANGED <<cfg, mpool, pools, nextPool, lpool, log, result,
                   rateLimiter, tickC>>
    /\ UNCHANGED <<held, rounds, connections, chanClosed, sess, nextId,
                   panicked>>
    /\ UNCHANGED <<poolVars, closeVars>>
    /\ UNCHANGED <<timeVars, extraVars>>

\* ---- specifications -----------------------------------------------------

Next ==
    \/ \E s \in ReqSizes : NewPool(s)
    \/ \E ok \in BOOLEAN : NewPoolCreate(ok)
    \/ NewPoolReturn
    \/ \E c \in Callers : \E ok \in BOOLEAN : getConnection(c, ok)
    \/ \E c \in Callers : CallerReturn(c)
    \/ \E c \in Callers : releaseConnection(c)
    \/ \E k \in Closers : Close(k)
    \/ \E k \in Closers : CloseDrain(k)
    \/ \E k \in Closers : CloseReturn(k)

Spec == Init /\ [][Next]_vars

\* an open pool and a working server: no Close, the factory never fails
NextOpen ==
    \/ \E s \in ReqSizes : NewPool(s)
    \/ NewPoolCreate(TRUE)
    \/ NewPoolReturn
    \/ \E c \in Callers : getConnection(c, TRUE)
    \/ \E c \in Callers : releaseConnection(c)

SpecOpen == Init /\ [][NextOpen]_vars /\ WF_vars(NextOpen)

\* One caller sends one message after the other, synchronously or through
\* SendAsync, with any configuration, with or without a rate limiter.
InitSequential ==
    /\ InitPool
    /\ InitSend(Configs, {"nil", "on"}, {1})

NextSequential ==
    \/ SendValidate(FirstCaller)
    \/ Tick
    \/ SendRateWait(FirstCaller)
    \/ SendCheckPool(FirstCaller)
    \/ \E nOk \in 0..MaxPoolSize : SendNewPool(FirstCaller, nOk)
    \/ SendAssign(FirstCaller)
    \/ \E ok \in BOOLEAN : SendAcquire(FirstCaller, ok)
    \/ SendDefer(FirstCaller)
    \/ \E failAt \in 0..(3 * MaxRcpt + 2 * MaxAttachments + 5) :
          \E eodOk \in BOOLEAN : SendTransact(FirstCaller, failAt, eodOk)
    \/ SendRelease(FirstCaller)
    \/ SendReturn(FirstCaller)
    \/ SendAsync(FirstCaller)
    \/ AsyncClose(FirstCaller)
    \/ AsyncReceive(FirstCaller)

SpecSequential == InitSequential /\ [][NextSequential]_vars

\* Every caller runs its first Send on the same configuration, which has no
\* pool yet; the server accepts the message or rejects its sender.
FirstSend(c) ==
    /\ rounds[c] = 0
    /\ SendValidate(c)

InitConcurrent ==
    /\ InitPool
    /\ InitSend(ConcurrentConfigs, {"nil"}, {1})

NextConcurrent ==
    \/ \E c \in Callers : FirstSend(c)
    \/ \E c \in Callers : SendCheckPool(c)
    \/ \E c \in Callers : \E nOk \in 0..MaxPoolSize : SendNewPool(c, nOk)
    \/ \E c \in Callers : SendAssign(c)
    \/ \E c \in Callers : \E ok \in BOOLEAN : SendAcquire(c, ok)
    \/ \E c \in Callers : SendDefer(c)
    \/ \E c \in Callers : \E failAt \in {0, 1} : SendTransact(c, failAt, TRUE)
    \/ \E c \in Callers : SendRelease(c)
    \/ \E c \in Callers : SendReturn(c)

SpecConcurrent == InitConcurrent /\ [][NextConcurrent]_vars

\* Every caller runs its first Send on the same configuration, whose limiter
\* is enabled and is not changed; the server is working.
InitLimited ==
    /\ InitPool
    /\ InitSend(LimitedConfigs, {"on"}, {1})

NextLimited ==
    \/ Tick
    \/ \E c \in Callers : FirstSend(c)
    \/ \E c \in Callers : SendRateWait(c)
    \/ \E c \in Callers : SendCheckPool(c)
    \/ \E c \in Callers : SendNewPool(c, 1)
    \/ \E c \in Callers : SendAssign(c)
    \/ \E c \in Callers : SendAcquire(c, TRUE)
    \/ \E c \in Callers : SendDefer(c)
    \/ \E c \in Callers : SendTransact(c, 0, TRUE)
    \/ \E c \in Callers : SendRelease(c)
    \/ \E c \in Callers : SendReturn(c)

SpecLimited == InitLimited /\ [][NextLimited]_vars

\* The callers create sessions under each TLS policy; any stage may fail.
AllStages == {"dial", "handshake", "greeting", "starttls", "auth"}

AllCauses == UNION {Causes(st) : st \in AllStages \cup {"none"}}

InitCreate ==
    /\ InitPool
    /\ InitSend(TLSPolicyConfigs, {"nil"}, {1})

NextCreate ==
    \/ \E c \in Callers : \E st \in AllStages \cup {"none"} :
          \E cause \in AllCauses : CreateSession(c, st, cause)
    \/ \E c \in Callers : CreateReturn(c)

SpecCreate == InitCreate /\ [][NextCreate]_vars

\* One streaming attachment of each source is encoded; the Reader hands its
\* bytes over in chunks of any size.
InitCodec ==
    /\ InitPool
    /\ InitSendWith({[BasicConfig(1) EXCEPT !.streams = 1]}, {"nil"}, {1},
                    {NewEncoder(src) : src \in Sources})

NextCodec ==
    \/ \E n \in 1..MaxBytes : StreamCopy(n)
    \/ StreamCopyFail
    \/ StreamClose

SpecCodec == InitCodec /\ [][NextCodec]_vars

\* One caller sends with SendAsync or Send.  The goroutine of SendAsync is
\* scheduled whenever it can run; nothing makes the caller receive from the
\* channel it was given.
InitAsync ==
    /\ InitPool
    /\ InitSend({BasicConfig(1), [BasicConfig(1) EXCEPT !.To = <<>>]},
                {"nil"}, {1})

NextAsync ==
    \/ SendAsync(FirstCaller)
    \/ SendValidate(FirstCaller)
    \/ SendCheckPool(FirstCaller)
    \/ \E nOk \in 0..MaxPoolSize : SendNewPool(FirstCaller, nOk)
    \/ SendAssign(FirstCaller)
    \/ \E ok \in BOOLEAN : SendAcquire(FirstCaller, ok)
    \/ SendDefer(FirstCaller)
    \/ \E failAt \in 0..4 : \E eodOk \in BOOLEAN :
          SendTransact(FirstCaller, failAt, eodOk)
    \/ SendRelease(FirstCaller)
    \/ SendReturn(FirstCaller)
    \/ AsyncClose(FirstCaller)
    \/ AsyncReceive(FirstCaller)

SpecAsync ==
    /\ InitAsync
    /\ [][NextAsync]_vars
    /\ WF_vars(SendReturn(FirstCaller))
    /\ WF_vars(AsyncClose(FirstCaller))

\* One caller sets the content type, any of them, between its Sends.
InitContent ==
    /\ InitPool
    /\ InitSend({BasicConfig(1)}, {"nil"}, {1})

NextContent ==
    \/ \E t \in ContentTypes : SetContentType(FirstCaller, t)
    \/ SendValidate(FirstCaller)
    \/ SendCheckPool(FirstCaller)
    \/ SendNewPool(FirstCaller, 1)
    \/ SendAssign(FirstCaller)
    \/ SendAcquire(FirstCaller, TRUE)
    \/ SendDefer(FirstCaller)
    \/ \E failAt \in 0..6 : \E eodOk \in BOOLEAN :
          SendTransact(FirstCaller, failAt, eodOk)
    \/ SendRelease(FirstCaller)
    \/ SendReturn(FirstCaller)

SpecContent == InitContent /\ [][NextContent]_vars

\* The callers render templates concurrently, once an engine is configured.
InitTemplate ==
    /\ InitPool
    /\ InitSend({BasicConfig(1)}, {"nil"}, {1})

NextTemplate ==
    \/ \E e \in BOOLEAN : SetTemplateEngine(FirstCaller, e)
    \/ \E c \in Callers :
          \/ \E name \in Names : RenderTemplate(c, name)
          \/ TemplateRLock(c)
          \/ TemplateRead(c)
          \/ TemplateRUnlock(c)
          \/ \E ok \in BOOLEAN : TemplateParse(c, ok)
          \/ TemplateLock(c)
          \/ TemplateStore(c)
          \/ TemplateUnlock(c)
          \/ \E out \in {"error", "", "Content"} : TemplateExecute(c, out)
          \/ TemplateReturn(c)

SpecTemplate == InitTemplate /\ [][NextTemplate]_vars

\* One caller sends, one Send after the other; another closes the
\* configuration's pool, at any moment.  The pool has room for two sessions.
Closer == 2

InitClosed ==
    /\ InitPool
    /\ InitSend({BasicConfig(MaxPoolSize + 1)}, {"nil"}, {1})

NextClosed ==
    \/ PoolClose(Closer)
    \/ SendValidate(FirstCaller)
    \/ SendCheckPool(FirstCaller)
    \/ \E nOk \in 0..(MaxPoolSize + 1) : SendNewPool(FirstCaller, nOk)
    \/ SendAssign(FirstCaller)
    \/ \E ok \in BOOLEAN : SendAcquire(FirstCaller, ok)
    \/ SendDefer(FirstCaller)
    \/ \E failAt \in 0..1 : SendTransact(FirstCaller, failAt, TRUE)
    \/ SendRelease(FirstCaller)
    \/ SendReturn(FirstCaller)

SpecClosed == InitClosed /\ [][NextClosed]_vars

\* One caller sends; another calls SetRateLimit at any moment, with the
\* arguments that do not make it panic.  Tickers fire and the sender's steps
\* are taken when they can be; nothing makes the other caller call.
Setter == 2

SoundLimits == {l \in Limits : ~SetRateLimitPanics(l)}

InitWait ==
    /\ InitPool
    /\ InitSend({BasicConfig(1)}, {"nil", "on"}, {1})

SenderStep ==
    \/ SendValidate(FirstCaller)
    \/ SendRateWait(FirstCaller)
    \/ SendCheckPool(FirstCaller)
    \/ SendNewPool(FirstCaller, 1)
    \/ SendAssign(FirstCaller)
    \/ SendAcquire(FirstCaller, TRUE)
    \/ SendDefer(FirstCaller)
    \/ SendTransact(FirstCaller, 0, TRUE)
    \/ SendRelease(FirstCaller)
    \/ SendReturn(FirstCaller)

NextWait ==
    \/ \E limit \in SoundLimits : SetRateLimit(Setter, limit)
    \/ Tick
    \/ ReplacedTick(FirstCaller)
    \/ SenderStep

SpecWait ==
    /\ InitWait
    /\ [][NextWait]_vars
    /\ WF_vars(Tick)
    /\ WF_vars(ReplacedTick(FirstCaller))
    /\ WF_vars(SenderStep)

\* Successive Sends of one configuration with a streaming attachment, no
\* setter called in between.
NextResend ==
    \/ \E n \in 1..MaxBytes : StreamCopy(n)
    \/ StreamClose
    \/ StreamAgain

SpecResend == InitCodec /\ [][NextResend]_vars

\* One caller calls SetRateLimit, with any argument, between its Sends on a
\* working server.
InitLimiter ==
    /\ InitPool
    /\ InitSend({BasicConfig(1)}, {"nil"}, {1})

NextLimiter ==
    \/ \E limit \in Limits : SetRateLimit(FirstCaller, limit)
    \/ Tick
    \/ SendValidate(FirstCaller)
    \/ SendRateWait(FirstCaller)
    \/ SendCheckPool(FirstCaller)
    \/ SendNewPool(FirstCaller, 1)
    \/ SendAssign(FirstCaller)
    \/ SendAcquire(FirstCaller, TRUE)
    \/ SendDefer(FirstCaller)
    \/ SendTransact(FirstCaller, 0, TRUE)
    \/ SendRelease(FirstCaller)
    \/ SendReturn(FirstCaller)

SpecLimiter == InitLimiter /\ [][NextLimiter]_vars

\* SetRateLimit has just enabled the limiter at some rate; one caller then
\* sends one message after the other on a working server while time passes.
InitTimed ==
    /\ InitPool
    /\ InitSend({BasicConfig(1)}, {"on"}, Rates)

NextTimed ==
    \/ PassTime
    \/ TimedTick
    \/ SendValidate(FirstCaller)
    \/ SendRateWait(FirstCaller)
    \/ SendCheckPool(FirstCaller)
    \/ SendNewPool(FirstCaller, 1)
    \/ SendAssign(FirstCaller)
    \/ SendAcquire(FirstCaller, TRUE)
    \/ SendDefer(FirstCaller)
    \/ SendTransact(FirstCaller, 0, TRUE)
    \/ SendRelease(FirstCaller)
    \/ SendReturn(FirstCaller)

SpecTimed == InitTimed /\ [][NextTimed]_vars

\* ---- properties ---------------------------------------------------------

Holders(s) == {c \in Callers : held[c] = s}

\* the step of caller c is a call of getConnection
GetStep(c) == pc[c] = "ready" /\ rounds'[c] = rounds[c] + 1

\* the step of caller c is a call of releaseConnection
ReleaseStep(c) == pc[c] = "holding" /\ pc'[c] # "holding"

\* sessions of the pool that are not in a caller's hands: put into the
\* inventory by NewPool or handed back by a release, and not acquired since
ReleasedNotReacquired ==
    {s \in Sessions : sess[s] # "none" /\ s \notin abandoned /\ Holders(s) = {}}

\* C1: under any interleaving of NewPool, getConnection, releaseConnection
\* and Close, the inventory never holds more than `size` sessions.
C1_InventoryAtMostCapacity == Len(connections) <= size

\* a release met a full inventory of an open pool and its session was
\* discarded
C1_Witness ==
    /\ poolRef = "ok" /\ ~chanClosed
    /\ Len(connections) = size
    /\ \E s \in Sessions : sess[s] = "closed"

\* C2: with every acquired session released at most once, no session is
\* held by two callers, and no session is in the inventory while a caller
\* holds it; the inventory holds no session twice.
C2_NeverIdleAndBorrowed ==
    /\ \A s \in Sessions :
          /\ Cardinality(Holders(s)) <= 1
          /\ s \in Range(connections) => Holders(s) = {}
    /\ \A i, j \in 1..Len(connections) :
          i # j => connections[i] # connections[j]

\* one caller has released its session and is done, a second caller holds
\* a session and a third session sits in the inventory
C2_Witness ==
    /\ poolRef = "ok" /\ ~chanClosed
    /\ Len(connections) > 0
    /\ \E c, d \in Callers :
          /\ pc[c] = "done" /\ held[c] = NoSession
          /\ pc[d] = "holding" /\ held[d] # NoSession
          /\ sess[held[d]] = "open"

\* C3: getConnection never waits for a release: a caller that is about to
\* acquire can always take its step; with an Idle session in the inventory
\* the step removes and returns the head, otherwise it returns a session
\* the factory has just opened, and it returns an error only when the
\* factory failed (the caller is then at "failed").
C3_AcquireNeverWaits ==
    /\ [](\A c \in Callers :
            (poolRef = "ok" /\ pc[c] = "ready" /\ ~panicked)
               => ENABLED (\E ok \in BOOLEAN : getConnection(c, ok)))
    /\ [][\A c \in Callers : GetStep(c) =>
            IF Len(connections) > 0
            THEN /\ held'[c] = Head(connections)
                 /\ connections' = Tail(connections)
                 /\ pc'[c] = "holding"
            ELSE \/ /\ pc'[c] = "holding"
                    /\ held'[c] \in Sessions
                    /\ sess[held'[c]] = "none"
                    /\ sess'[held'[c]] = "open"
                    /\ connections' = connections
                 \/ /\ pc'[c] = "failed"
                    /\ held'[c] = NoSession
                    /\ sess' = sess
                    /\ connections' = connections]_vars

\* more callers hold a session than the pool has capacity: the last one
\* was created on an empty inventory
C3_Witness ==
    /\ poolRef = "ok" /\ ~chanClosed
    /\ Len(connections) = 0
    /\ Cardinality({c \in Callers : pc[c] = "holding" /\ held[c] # NoSession}) > size

\* C4: releaseConnection of a non-nil session on an open pool never blocks:
\* with a free slot the session is appended to the inventory and stays
\* open, otherwise it is closed; afterwards no caller holds it.
C4_ReleaseIdleOrClosed ==
    /\ [](\A c \in Callers :
            (pc[c] = "holding" /\ ~panicked) => ENABLED releaseConnection(c))
    /\ [][\A c \in Callers :
            (ReleaseStep(c) /\ held[c] # NoSession /\ ~chanClosed) =>
               /\ IF Len(connections) < size
                  THEN /\ connections' = Append(connections, held[c])
                       /\ sess'[held[c]] = "open"
                  ELSE /\ connections' = connections
                       /\ sess'[held[c]] = "closed"
               /\ \A d \in Callers : held'[d] # held[c]
               /\ ~panicked']_vars

\* on an open pool a session opened by getConnection went back into a free
\* slot of the inventory and another one was closed on the full inventory
C4_Witness ==
    /\ poolRef = "ok" /\ ~chanClosed
    /\ \E s \in Range(connections) : s > size
    /\ \E s \in Sessions : sess[s] = "closed"

\* C5: a session that was Borrowed when Close() ran and is released
\* afterwards is closed by the release and is not put back.
C5_ReleaseAfterCloseCloses ==
    [][\A c \in Callers :
          (ReleaseStep(c) /\ chanClosed /\ held[c] \in borrowedAtClose) =>
             /\ sess'[held[c]] = "closed"
             /\ held[c] \notin Range(connections')
             /\ ~panicked']_vars

\* C6: once Close() has returned the inventory is empty, the sessions
\* Close() closed are exactly those that were Idle when it closed the
\* channel, and the sessions Borrowed at that moment were not closed by it.
C6_CloseClosesExactlyIdle ==
    \A k \in Closers : pcClose[k] = "done" =>
        /\ connections = <<>>
        /\ closedByClose = idleAtClose
        /\ \A s \in idleAtClose : sess[s] = "closed"
        /\ closedByClose \cap borrowedAtClose = {}

\* C7: no interleaving of getConnection, releaseConnection and Close
\* panics, and no closer waits for a mutex that is never unlocked.
C7_NoPanicNoDeadlock ==
    /\ ~panicked
    /\ \A k \in Closers : pcClose[k] # "panicked"
    /\ \A c \in Callers : pc[c] # "panicked"
    /\ mu # NoSession => pcClose[mu] = "draining"

\* C8: on an open pool with a working server every caller finishes all its
\* acquire/release rounds, nothing panics, and a caller that got past
\* getConnection holds an open, non-nil session.
C8_ConcurrentCallersComplete ==
    /\ [](\A c \in Callers :
            pc[c] = "holding" => (held[c] # NoSession /\ sess[held[c]] = "open"))
    /\ [](~panicked)
    /\ <>(\A c \in Callers : pc[c] = "done")

\* every caller is done and more callers than the pool has capacity held
\* sessions at once: a session beyond the capacity was opened and discarded
C8_Witness ==
    /\ \A c \in Callers : pc[c] = "done"
    /\ NumCallers > size
    /\ nextId - 1 > size
    /\ \E s \in Sessions : sess[s] = "closed"

C10_NewPoolAllOrNothing ==
    newPoolErr => (poolRef = "nil" /\ \A s \in abandoned : sess[s] = "closed")

\* C11: NewPool(s) returns a pool of capacity s when s > 0 and of capacity
\* 10 when s <= 0, and the pool it returns holds exactly that many sessions,
\* all open and distinct, in its inventory.
C11_NewPoolCapacity ==
    [][(pcNew = "building" /\ poolRef' = "ok") =>
          /\ size' = (IF reqSize > 0 THEN reqSize ELSE 10)
          /\ Len(connections') = size'
          /\ Cardinality(Range(connections')) = size'
          /\ \A s \in Range(connections') : sess'[s] = "open"]_vars

\* NewPool was called with a negative size and is about to return its pool
\* of ten sessions
C11_Witness ==
    /\ pcNew = "building"
    /\ reqSize < 0
    /\ Len(connections) = 10


\* ---- properties of Send ---------------------------------------------------

\* the positions in l of the events of operation op
Positions(l, op) == {i \in DOMAIN l : l[i].op = op}

\* the events of l that failed
Failed(l) == {i \in DOMAIN l : ~l[i].ok}

\* this Send obtained a session from the pool
Acquired(l) == \E i \in Positions(l, "ACQUIRE") : l[i].ok

\* client.Data() succeeded: the data stream is open
DataOpen(l) == \E i \in Positions(l, "DATA") : l[i].ok

\* C12: a Send that obtained a session has released it exactly once, and
\* holds it no more, when it returns, whichever way it returns: success,
\* rejection of MAIL FROM or of a RCPT TO, failure to open the data stream,
\* failure while writing headers, body or attachments.
C12_ReleasedExactlyOnce ==
    \A c \in Callers :
        (pc[c] = "returning" /\ Acquired(log[c])) =>
            /\ Cardinality(Positions(log[c], "RELEASE")) = 1
            /\ held[c] = NoSession

C12_Witness ==
    /\ pc[FirstCaller] = "returning"
    /\ Acquired(log[FirstCaller])
    /\ \E i \in Positions(log[FirstCaller], "RCPT") : ~log[FirstCaller][i].ok
    /\ Positions(log[FirstCaller], "RELEASE") # {}

\* The step of the state machine of a send an event belongs to.  The pool is
\* built as part of AcquireSession; the deferred closings of the multipart
\* writer and of the data writer together are CloseData.
StageOf(op) ==
    CASE op = "VALIDATE" -> 1
      [] op = "RATEWAIT" -> 2
      [] op \in {"NEWPOOL", "ACQUIRE"} -> 3
      [] op = "MAIL" -> 4
      [] op = "RCPT" -> 5
      [] op = "DATA" -> 6
      [] op \in {"HEADERS", "PART", "BODY", "ATTACH", "STREAM"} -> 7
      [] op \in {"BOUNDARY", "EOD"} -> 8
      [] op = "RELEASE" -> 9

\* the steps that take more than one event
Repeatable == {5, 7, 8}

\* C13: within one Send the steps occur in the order Validate,
\* RateLimitWait, AcquireSession, MAIL FROM, RCPT TO*, OpenData, StreamBody,
\* CloseData, Release; after a failed step nothing runs but Release, and
\* CloseData when the data stream is open, and these do run.
C13_StepsInOrder ==
    \A c \in Callers :
        LET l == log[c] IN
        /\ \A i, j \in DOMAIN l :
              i < j =>
                /\ StageOf(l[i].op) <= StageOf(l[j].op)
                /\ StageOf(l[i].op) = StageOf(l[j].op)
                      => StageOf(l[i].op) \in Repeatable
                /\ ~l[i].ok =>
                      \/ StageOf(l[j].op) = 9
                      \/ StageOf(l[j].op) = 8 /\ DataOpen(l)
        /\ l # <<>> => l[1].op = "VALIDATE"
        /\ (rateLimiter = "on" /\ \E i \in DOMAIN l : StageOf(l[i].op) > 2)
              => Positions(l, "RATEWAIT") # {}
        /\ pc[c] = "returning" =>
              /\ Acquired(l) => Positions(l, "RELEASE") # {}
              /\ DataOpen(l) => Positions(l, "EOD") # {}

C13_Witness ==
    LET l == log[FirstCaller] IN
    /\ pc[FirstCaller] = "returning"
    /\ rateLimiter = "on"
    /\ \E i \in Positions(l, "BODY") : ~l[i].ok
    /\ Positions(l, "EOD") # {}
    /\ Positions(l, "RELEASE") # {}
    /\ Positions(l, "ATTACH") = {}

\* a required field is empty, there is no recipient, or an address does not
\* pass the syntax check
Defective(m) ==
    \/ m.empty # {}
    \/ m.From = <<>>
    \/ m.To = <<>>
    \/ ~isEmailValid(m.From)
    \/ \E i \in DOMAIN m.To : ~isEmailValid(m.To[i])
    \/ \E i \in DOMAIN m.Cc : ~isEmailValid(m.Cc[i])
    \/ \E i \in DOMAIN m.Bcc : ~isEmailValid(m.Bcc[i])

\* C14: with a defective configuration Send returns an error and does
\* nothing on the network: no pool is made, no session dialed or acquired,
\* no SMTP command issued.
C14_InvalidNoNetwork ==
    Defective(cfg) =>
        /\ mpool = NoPool
        /\ nextPool = 1
        /\ nextId = 1
        /\ \A s \in Sessions : sess[s] = "none"
        /\ \A c \in Callers :
              /\ held[c] = NoSession
              /\ \A i \in DOMAIN log[c] : log[c][i].op = "VALIDATE"
              /\ pc[c] \in {"ready", "returning", "asyncclose", "asyncdone",
                            "done"}
              /\ pc[c] = "returning" => result[c] = "missing parameter"
              /\ \A i \in DOMAIN handle[c] :
                    handle[c][i] = "missing parameter"

C14_Witness ==
    /\ pc[FirstCaller] = "returning"
    /\ result[FirstCaller] = "missing parameter"
    /\ cfg.empty = {}
    /\ cfg.To # <<>>
    /\ isEmailValid(cfg.From)
    /\ \A i \in DOMAIN cfg.To : isEmailValid(cfg.To[i])
    /\ \A i \in DOMAIN cfg.Cc : isEmailValid(cfg.Cc[i])
    /\ \E i \in DOMAIN cfg.Bcc : cfg.Bcc[i] = BadTldAddr

\* the MAIL FROM and RCPT TO commands of l, in the order they were issued
Envelope(l) == SelectSeq(l, LAMBDA e : e.op \in {"MAIL", "RCPT"})

\* C15: the envelope Send issues is MAIL FROM for the sender, then one RCPT
\* TO for each address of To, of Cc, of Bcc, in this order; a rejected
\* command is the last of the envelope, no DATA follows it, and Send returns
\* an error.
C15_EnvelopeOrder ==
    \A c \in Callers :
        LET env == Envelope(log[c])
            expected == <<cfg.From>> \o cfg.To \o cfg.Cc \o cfg.Bcc
        IN  /\ Len(env) <= Len(expected)
            /\ \A i \in DOMAIN env :
                  /\ env[i].op = (IF i = 1 THEN "MAIL" ELSE "RCPT")
                  /\ env[i].arg = expected[i]
                  /\ i < Len(env) => env[i].ok
            /\ Positions(log[c], "DATA") # {} =>
                  /\ Len(env) = Len(expected)
                  /\ \A i \in DOMAIN env : env[i].ok
            /\ (pc[c] = "returning" /\ \E i \in DOMAIN env : ~env[i].ok)
                  => result[c] \notin {"nil", "none"}

C15_Witness ==
    LET env == Envelope(log[FirstCaller]) IN
    /\ pc[FirstCaller] = "returning"
    /\ cfg.Cc # <<>>
    /\ cfg.Bcc # <<>>
    /\ Len(env) = Len(cfg.To) + 2
    /\ env[Len(env)].arg = CcAddr
    /\ ~env[Len(env)].ok
    /\ result[FirstCaller] = "RCPT"

\* C16: Send returns nil only when the server accepted the whole message:
\* every command and the end-of-data line got a positive reply.
C16_NilOnlyWhenAccepted ==
    \A c \in Callers :
        (pc[c] = "returning" /\ result[c] = "nil") =>
            \A i \in DOMAIN log[c] : log[c][i].ok

\* C17: after the copy of a streamed attachment failed nothing more is
\* written to the data stream and the end-of-data line is not sent; the
\* error is returned.
C17_StreamFailureStopsWriting ==
    \A c \in Callers :
        \A i \in Positions(log[c], "STREAM") :
            ~log[c][i].ok =>
                /\ \A j \in DOMAIN log[c] : j > i => log[c][j].op = "RELEASE"
                /\ pc[c] = "returning" => result[c] = "STREAM"

\* the pools NewPool has built for this configuration
BuiltPools == {p \in PoolIds : pools[p].state = "built"}

\* C18: concurrent first Sends build at most one pool for the configuration.
C18_OnePoolBuilt == Cardinality(BuiltPools) <= 1

\* C19: the goroutine of SendAsync never waits to deliver; the only value
\* that ever enters the handle is the one Send returned, sent once on the
\* open and empty handle, after which the handle is closed and gets no
\* second value.
C19_OneResultThenClosed ==
    /\ [](\A c \in Callers :
            /\ (async[c] /\ pc[c] = "returning")
                  => CanSend(handle[c], HandleCapacity)
            /\ Len(handle[c]) <= 1
            /\ handleClosed[c] => pc[c] = "asyncdone")
    /\ [][\A c \in Callers :
            /\ (async[c] /\ pc[c] = "returning" /\ pc'[c] # pc[c])
                  => /\ handle[c] = <<>>
                     /\ ~handleClosed[c]
                     /\ handle'[c] = <<result[c]>>
                     /\ result[c] # "none"
                     /\ pc'[c] = "asyncclose"
            /\ Len(handle'[c]) > Len(handle[c])
                  => (async[c] /\ pc[c] = "returning")
            /\ (pc[c] = "asyncclose" /\ pc'[c] # pc[c])
                  => (handleClosed'[c] /\ pc'[c] = "asyncdone")
            /\ (~async[c] /\ async'[c])
                  => (pc[c] = "ready" /\ handle'[c] = <<>>
                        /\ ~handleClosed'[c])]_vars

C19_Witness ==
    /\ async[FirstCaller]
    /\ pc[FirstCaller] = "asyncdone"
    /\ handleClosed[FirstCaller]
    /\ handle[FirstCaller] = <<"RCPT">>

\* C20: with the limiter enabled at rate, the K-th of K sequential Sends
\* returns no earlier than (K - 1) / rate seconds after the first started.
C20_MinimumDuration ==
    pc[FirstCaller] = "returning" =>
        elapsed * rate >= (rounds[FirstCaller] - 1) * SecondUnits

\* the positions of send() after the wait for a tick
PastWait ==
    {"checkpool", "newpool", "assign", "acquire", "defer", "transact",
     "release", "returning"}

\* the callers whose Send gets past the wait for a tick in this step
Admitted == {c \in Callers : pc[c] = "ratewait" /\ pc'[c] # "ratewait"}

\* C21: with the limiter on and unchanged, a Send that passed validation is
\* past the wait only after it took one tick, and exactly one, whatever its
\* recipients; a step admits at most one Send and takes exactly one tick out
\* of the ticker's channel for it, and ticks leave the channel in no other
\* way: no more Sends are past the wait than ticks were emitted.
C21_OneTickPerSend ==
    /\ [](\A c \in Callers :
            (rateLimiter = "on" /\ pc[c] \in PastWait /\ validate(cfg))
                => Cardinality(Positions(log[c], "RATEWAIT")) = 1)
    /\ [][/\ Cardinality(Admitted) <= 1
          /\ Admitted # {} => (tickC > 0 /\ tickC' = tickC - 1)
          /\ tickC' < tickC => Admitted # {}]_vars

C21_Witness ==
    /\ rateLimiter = "on"
    /\ Len(allRecipients(cfg)) > 1
    /\ \A c \in Callers :
          pc[c] \in PastWait /\ Positions(log[c], "RATEWAIT") # {}

\* the call enables a limiter: non-nil, Enabled, with a positive rate
IsEnable(limit) ==
    limit.kind = "limit" /\ limit.Enabled /\ limit.PerSecond > 0

C23_SetRateLimitNeverPanics == ~panicked

\* the stage of the run l that failed
FailedStage(l) == l[CHOOSE i \in DOMAIN l : ~l[i].ok].op

\* C24: a failed createConnection leaves nothing open: if the dial succeeded
\* the transport was closed before the error is returned, and every open
\* session is one that a successful call handed to its caller.
C24_FailedCreationClosesTransport ==
    /\ \A c \in Callers :
          (pc[c] = "returning" /\ result[c] # "nil") =>
              /\ held[c] = NoSession
              /\ ~TransportOpen(log[c])
              /\ log[c][1].ok => log[c][Len(log[c])].op = "close"
    /\ \A s \in Sessions : sess[s] = "open" => \E c \in Callers : held[c] = s

C24_Witness ==
    /\ pc[FirstCaller] = "returning"
    /\ result[FirstCaller] = "535 authentication failed"
    /\ cfg.tlsConfig.StartTLS
    /\ sess[1] = "closed"

\* C25: the error of a failed createConnection tells which stage failed: no
\* failure of another stage returns the same error.
C25_ErrorTellsStage ==
    \A c \in Callers :
        (pc[c] = "returning" /\ result[c] # "nil") =>
            \A st \in AllStages \ {FailedStage(log[c])} :
                \A cause \in Causes(st) : CreateError(st, cause) # result[c]

\* the positions of l where TLS was established
TLSDone(l) ==
    {i \in DOMAIN l : l[i].op \in {"handshake", "starttls"} /\ l[i].ok}

\* C26: createConnection runs the TLS step of the policy the configuration
\* selects, and no other: the handshake right after the dial for Direct TLS,
\* STARTTLS after the greeting when StartTLS is set, none without a TLS
\* configuration; with a TLS configuration Auth is only run after that TLS
\* step succeeded.
C26_TLSPolicyBeforeAuth ==
    \A c \in Callers :
        LET l == log[c]
            direct == cfg.tlsConfig.present /\ ~cfg.tlsConfig.StartTLS
            upgrade == cfg.tlsConfig.present /\ cfg.tlsConfig.StartTLS
        IN  /\ Positions(l, "handshake") # {} => direct
            /\ Positions(l, "starttls") # {} => upgrade
            /\ (direct /\ Positions(l, "greeting") # {})
                  => \E i \in TLSDone(l) :
                        l[i].op = "handshake" /\ l[i + 1].op = "greeting"
            /\ upgrade =>
                  \A i \in Positions(l, "starttls") :
                      i > 1 /\ l[i - 1].op = "greeting" /\ l[i - 1].ok
            /\ \A j \in Positions(l, "auth") :
                  /\ cfg.tlsConfig.present => \E i \in TLSDone(l) : i < j
                  /\ \A i \in 1..(j - 1) : l[i].ok
            /\ (pc[c] = "returning" /\ result[c] = "nil")
                  => Positions(l, "auth") # {}

C26_Witness ==
    /\ pc[FirstCaller] = "returning"
    /\ result[FirstCaller] = "nil"
    /\ cfg.tlsConfig.StartTLS
    /\ \E i \in TLSDone(log[FirstCaller]) :
          log[FirstCaller][i + 1].op = "auth"
    /\ sess[held[FirstCaller]] = "open"

\* the arguments of the events op of l, in order
ArgsOf(l, op) ==
    LET es == SelectSeq(l, LAMBDA e : e.op = op)
    IN  [i \in DOMAIN es |-> es[i].arg]

\* C27: a Send of a valid configuration during which no step fails returns
\* nil, and on the one session it acquired the server saw one MAIL FROM with
\* the sender, one RCPT TO per recipient, and one data payload, ended once,
\* with the From, To and Subject headers and then the body content.
C27_CompliantSendDelivers ==
    \A c \in Callers :
        LET l == log[c]
        IN  (/\ pc[c] = "returning"
             /\ validate(cfg)
             /\ \A i \in DOMAIN l : l[i].ok)
            => /\ result[c] = "nil"
               /\ Cardinality(Positions(l, "ACQUIRE")) = 1
               /\ ArgsOf(l, "MAIL") = <<cfg.From>>
               /\ ArgsOf(l, "RCPT") = cfg.To \o cfg.Cc \o cfg.Bcc
               /\ Cardinality(Positions(l, "DATA")) = 1
               /\ Cardinality(Positions(l, "EOD")) = 1
               /\ Len(ArgsOf(l, "HEADERS")) = 1
               /\ ArgsOf(l, "HEADERS")[1].From.addr = cfg.From
               /\ ArgsOf(l, "HEADERS")[1].To = cfg.To
               /\ ArgsOf(l, "HEADERS")[1].Subject = "Subject"
               /\ ArgsOf(l, "BODY") = <<"Content">>
               /\ \A d \in Positions(l, "DATA") : \A h \in Positions(l, "HEADERS") :
                     \A b \in Positions(l, "BODY") : \A e \in Positions(l, "EOD") :
                         d < h /\ h < b /\ b < e

C27_Witness ==
    /\ pc[FirstCaller] = "returning"
    /\ result[FirstCaller] = "nil"
    /\ Len(cfg.Cc) = 1
    /\ ArgsOf(log[FirstCaller], "RCPT") = <<cfg.To[1], CcAddr>>
    /\ ArgsOf(log[FirstCaller], "BODY") = <<"Content">>
    /\ Positions(log[FirstCaller], "EOD") # {}

\* C28: once a streaming attachment was copied to its end and the encoder
\* closed, decoding what was written gives the source bytes, whatever the
\* length of the source and the sizes of the chunks it was read in; the
\* encoder keeps nothing back.
C28_StreamRoundTrip ==
    (~codec.open /\ ~codec.err) =>
        /\ DecodeString(codec.out) = codec.src
        /\ codec.buf = <<>>
        /\ Len(codec.out) = 4 * ((Len(codec.src) + 2) \div 3)

C28_Witness ==
    /\ ~codec.open
    /\ ~codec.err
    /\ codec.src = <<77, 255, 0, 77>>
    /\ codec.out = <<"T", "f", "8", "A", "T", "Q", "=", "=">>
    /\ DecodeString(codec.out) = codec.src

\* C29: the error of a Send that failed validation tells which check failed
\* first: a configuration whose first violation is another one gets another
\* error.
C29_ErrorTellsFirstViolation ==
    \A c \in Callers :
        (pc[c] = "returning" /\ ~validate(cfg)) =>
            \A m \in Configs :
                (~validate(m) /\ FirstViolation(m) # FirstViolation(cfg))
                    => ValidationError(m) # result[c]

\* C30: the session of a Send whose transaction failed is released as after
\* a success: it is appended to the pool's idle sessions when a slot is
\* free, neither closed nor reset, and an acquire hands out the oldest idle
\* session as it is.
C30_FailedSessionPooledAsIs ==
    [][\A c \in Callers :
          /\ (pc[c] = "release" /\ pc'[c] = "returning" /\ result[c] # "nil")
                => /\ sess[held[c]] = "indeterminate"
                   /\ sess'[held[c]] =
                         IF Len(pools[lpool[c]].conns) < PoolCapacity(cfg.poolSize)
                         THEN "indeterminate" ELSE "closed"
                   /\ Len(pools[lpool[c]].conns) < PoolCapacity(cfg.poolSize)
                         => pools'[lpool[c]].conns =
                                Append(pools[lpool[c]].conns, held[c])
          /\ (pc[c] = "acquire" /\ pc'[c] = "defer"
                  /\ pools[mpool].conns # <<>>)
                => /\ held'[c] = Head(pools[mpool].conns)
                   /\ sess'[held'[c]] = sess[held'[c]]]_vars

C30_Witness ==
    /\ pc[FirstCaller] = "defer"
    /\ rounds[FirstCaller] = 2
    /\ held[FirstCaller] = 1
    /\ sess[1] = "indeterminate"

\* C31: in sequential Sends a pool is constructed only by a Send that found
\* none; once a pool was constructed and assigned every later Send uses it
\* and constructs no other; a Send whose construction failed returns an
\* error and leaves the configuration without a pool.
C31_PoolConstructedOnce ==
    /\ [](/\ Cardinality(BuiltPools) <= 1
          /\ mpool # NoPool => BuiltPools = {mpool}
          /\ \A c \in Callers :
                pc[c] \in {"acquire", "defer", "transact", "release"}
                    => mpool \in BuiltPools)
    /\ [][/\ nextPool' # nextPool =>
                /\ mpool = NoPool
                /\ BuiltPools = {}
                /\ \E c \in Callers : pc[c] = "newpool"
          /\ mpool # NoPool => mpool' = mpool
          /\ \A c \in Callers :
                (pc[c] = "newpool" /\ pc'[c] = "returning")
                    => /\ mpool' = NoPool
                       /\ BuiltPools' = {}
                       /\ result'[c] = "error creating pool"]_vars

C31_Witness ==
    /\ pc[FirstCaller] = "acquire"
    /\ rounds[FirstCaller] = 2
    /\ mpool = 1
    /\ nextPool = 2

\* C32: the goroutine of SendAsync ends once its Send has returned, also
\* when the result is never received: the result goes into the channel's
\* buffer and the channel is closed.
C32_AsyncEndsUnread ==
    \A c \in Callers :
        (async[c] /\ pc[c] = "returning") ~> (pc[c] = "asyncdone")

C32_Witness ==
    /\ async[FirstCaller]
    /\ pc[FirstCaller] = "asyncdone"
    /\ handleClosed[FirstCaller]
    /\ handle[FirstCaller] = <<"nil">>
    /\ rounds[FirstCaller] = 1

\* C33: the body part of a Send has the configured content type, text/html
\* when none was configured.
C33_BodyPartHasConfiguredType ==
    \A c \in Callers :
        \A i \in Positions(log[c], "PART") :
            log[c][i].arg.type =
                (IF cfg.ContentType = "" THEN "text/html" ELSE cfg.ContentType)

\* C34: the template cache is read only by a holder of the shared lock and
\* written only by the holder of the exclusive lock, which excludes readers;
\* a compiled template is stored under its name by the caller that missed,
\* the later store replacing the earlier; an entry is never removed, and a
\* caller whose read found the entry executes it without compiling.
C34_TemplateCacheLocked ==
    /\ [](/\ templates.writer # 0 => templates.readers = {}
          /\ \A c \in Callers :
                /\ pc[c] = "tplread"
                      => (c \in templates.readers /\ templates.writer = 0)
                /\ pc[c] = "tplstore"
                      => (templates.writer = c /\ templates.readers = {})
                /\ pc[c] \in {"tpllock", "tplstore", "tplunlock"}
                      => templates.tmpl[c] # NoTemplate)
    /\ [][/\ \A n \in Names :
                /\ templates'.cache[n] # templates.cache[n] =>
                      \E c \in Callers :
                          /\ pc[c] = "tplstore"
                          /\ templates.writer = c
                          /\ templates.name[c] = n
                          /\ templates'.cache[n] = templates.tmpl[c]
                /\ templates.cache[n] # NoTemplate
                      => templates'.cache[n] # NoTemplate
          /\ \A c \in Callers :
                /\ (pc[c] = "tplread" /\ pc'[c] # pc[c]
                        /\ templates.cache[templates.name[c]] # NoTemplate)
                      => templates'.tmpl[c] = templates.cache[templates.name[c]]
                /\ (pc[c] = "tplrunlock" /\ pc'[c] # pc[c]
                        /\ templates.tmpl[c] # NoTemplate)
                      => pc'[c] = "tplexec"
                /\ pc'[c] = "tplparse" => templates'.tmpl[c] = NoTemplate
          /\ templates'.parsed # templates.parsed =>
                \E c \in Callers :
                    pc[c] = "tplparse" /\ templates.tmpl[c] = NoTemplate]_vars

\* both callers missed on the same name and compiled; the second store
\* replaced the first
C34_Witness ==
    /\ pc[1] = "tplexec"
    /\ pc[2] = "tplunlock"
    /\ templates.name[1] = "welcome"
    /\ templates.name[2] = "welcome"
    /\ templates.tmpl[1] = 1
    /\ templates.tmpl[2] = 2
    /\ templates.cache["welcome"] = 2
    /\ templates.cache["reset"] = NoTemplate

\* C35: a session goes back to the pool with its data stream closed: on
\* every exit of Send after the data stream was opened, the end of data is
\* sent before the release, so no session in an inventory, and none a later
\* Send acquires, is in the middle of a DATA transfer.
C35_DataClosedBeforeRelease ==
    \A c \in Callers :
        LET l == log[c]
        IN  /\ (pc[c] = "release" /\ DataOpen(l)) => Positions(l, "EOD") # {}
            /\ \A r \in Positions(l, "RELEASE") :
                  \A d \in Positions(l, "DATA") :
                      l[d].ok => \E e \in Positions(l, "EOD") : d < e /\ e < r
            /\ \A p \in PoolIds : \A i \in DOMAIN pools[p].conns :
                  pools[p].conns[i] # held[c]

C35_Witness ==
    /\ pc[FirstCaller] = "returning"
    /\ result[FirstCaller] = "HEADERS"
    /\ DataOpen(log[FirstCaller])
    /\ Positions(log[FirstCaller], "RELEASE") # {}
    /\ mpool # NoPool
    /\ pools[mpool].conns = <<1>>
    /\ sess[1] = "indeterminate"

\* C36: once the configuration's pool is closed and no Send is in flight,
\* nothing having panicked, every session opened for the configuration is
\* closed.
C36_AllClosedAfterClose ==
    (/\ mpool # NoPool
     /\ pools[mpool].state = "closed"
     /\ ~panicked
     /\ pc[FirstCaller] \in {"ready", "done"})
        => \A s \in Sessions : sess[s] \in {"none", "closed"}

\* C38: Close() on a pool that is closed already returns without panicking
\* and changes neither the inventory nor any session.
C38_CloseIdempotent ==
    [][\A k \in Closers :
          (pcClose[k] = "idle" /\ chanClosed /\ pcClose'[k] # "idle") =>
              /\ ~panicked'
              /\ pcClose'[k] # "panicked"
              /\ sess' = sess
              /\ connections' = connections]_vars

\* C37: a Send that waits for a tick of the rate limiter gets past the wait
\* and returns, whatever SetRateLimit does meanwhile.
C37_WaitingSendReturns ==
    \A c \in Callers :
        (pc[c] = "ratewait") ~> (pc[c] \in {"ready", "done"})

\* C40: at most one ticker made by SetRateLimit is running.
C40_OneTickerRunning == tickers.running <= 1

\* C39: the successful Sends of one configuration transmit the same bytes
\* for its streaming attachment.
C39_ResendSameBytes ==
    \A i, j \in DOMAIN codec.sent :
        DecodeString(codec.sent[i]) = DecodeString(codec.sent[j])

TypeOK ==
    /\ poolRef \in {"nil", "ok"}
    /\ size \in 0..(defaultPoolSize + MaxReqSize)
    /\ connections \in Seq(Sessions \cup {NoSession})
    /\ sess \in [Sessions -> {"none", "open", "closed", "indeterminate"}]
    /\ nextId \in 1..(MaxSessions + 1)
    /\ pc \in [Callers -> {"ready", "holding", "failed", "done", "panicked",
                           "ratewait", "checkpool", "newpool", "assign",
                           "acquire", "defer", "transact", "release",
                           "returning", "asyncclose", "asyncdone",
                           "tplrlock", "tplread", "tplrunlock", "tplparse",
                           "tpllock", "tplstore", "tplunlock", "tplexec",
                           "tplreturn"}]
    /\ held \in [Callers -> Sessions \cup {NoSession}]
    /\ mpool \in PoolIds \cup {NoPool}
    /\ nextPool \in 1..(MaxPools + 1)
    /\ \A p \in PoolIds :
          /\ pools[p].state \in {"none", "failed", "built", "closed"}
          /\ pools[p].conns \in Seq(Sessions)
          /\ Len(pools[p].conns) <= PoolCapacity(cfg.poolSize)
    /\ lpool \in [Callers -> PoolIds \cup {NoPool}]
    /\ rateLimiter \in {"nil", "on"}
    /\ tickC \in 0..1
    /\ async \in [Callers -> BOOLEAN]
    /\ handleClosed \in [Callers -> BOOLEAN]
    /\ \A c \in Callers : Len(handle[c]) <= HandleCapacity
    /\ rate \in 1..MaxRate
    /\ untilTick \in 0..SecondUnits
    /\ elapsed \in 0..MaxTime
    /\ lastLimit \in Limits \cup {NoCall}
    /\ codec.src \in Sources
    /\ codec.pos \in 0..Len(codec.src)
    /\ Len(codec.buf) \in 0..2
    /\ codec.open \in BOOLEAN
    /\ codec.err \in BOOLEAN
    /\ Len(codec.sent) \in 0..MaxSends
    /\ cfg.tlsConfig \in TLSConfigs
    /\ cfg.ContentType \in ContentTypes
    /\ tickers.running \in 0..MaxTickers
    /\ \A c \in Callers :
          /\ tickers.bound[c].state \in {"current", "running", "stopped"}
          /\ tickers.bound[c].c \in 0..1
    /\ templates.engine \in BOOLEAN
    /\ templates.cache \in [Names -> 0..templates.parsed]
    /\ templates.readers \subseteq Callers
    /\ templates.writer \in Callers \cup {0}
    /\ templates.name \in [Callers -> Names \cup {NoName}]
    /\ templates.tmpl \in [Callers -> 0..templates.parsed]

====
